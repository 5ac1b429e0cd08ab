---------------------------- MODULE MCVhpiBridge ----------------------------
EXTENDS VhpiBridge

MCPayloads == {<<0>>, <<1>>, <<0, 1>>, <<1, 0, 0>>}
TooLong == {<<1>>, <<0, 1>>}
=============================================================================
