----------------------------- MODULE MCDecoder -----------------------------
(* Topics with and without a record that cannot be decoded; schema 3 is    *)
(* one the registry does not have.                                         *)
EXTENDS Decoder

MCTopics == {
    <<<<"event", 1>>, <<"short", 0>>, <<"event", 2>>, <<"event", 1>>>>,
    <<<<"event", 1>>, <<"alien", 0>>, <<"event", 1>>>>,
    <<<<"event", 1>>, <<"event", 2>>, <<"corrupt", 1>>, <<"event", 2>>>>,
    <<<<"event", 2>>, <<"event", 3>>, <<"short", 0>>>> }
=============================================================================
