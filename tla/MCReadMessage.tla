---------------------------- MODULE MCReadMessage ----------------------------
(* Messages for the runs of ReadMessage.                                   *)
EXTENDS ReadMessage

(* Characters of one, two and three bytes before, between and after the    *)
(* marker's halves; a marker that never comes; text that follows it.       *)
PlainMessages == {
    <<"a", "lead", "mid", "last", "open", "shut">>,
    <<"lead", "last", "open", "lead", "last", "shut", "open", "shut", "a">>,
    <<"lead", "last", "lead", "mid", "last", "open", "a", "shut">>,
    <<"nul", "open", "shut", "lead", "ignored", "a", "lead", "combining">>,
    <<"lead", "ignored", "open", "lead", "combining", "shut", "a", "lead", "combining">>}

(* Texts that are not plain: what stands between the halves is ignored, or *)
(* a combining character follows the marker.                               *)
OtherMessages == {
    <<"open", "nul", "lead", "ignored", "shut", "open", "shut">>,
    <<"a", "open", "shut", "lead", "combining", "a">>}

MixedMessages == PlainMessages \union OtherMessages

=============================================================================
