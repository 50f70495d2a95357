------------------------------ MODULE MCDevices ------------------------------
(***************************************************************************)
(* Keyboard and mouse, and the conversions of text, which share no state:  *)
(* text is converted before the devices move, so that the states of the    *)
(* two add up instead of multiplying.                                      *)
(***************************************************************************)
EXTENDS Ps2, Text

\* right and up by little, left and down with every bit 3 set
MCPackets == {<<8, 2, 1>>, <<8, 254, 255>>}

MCWords == SeqOf({"a", "b"}, 3)
MCCode == [a |-> 97, b |-> 98]

\* around 127 and below, with spaces, signs and zeros in front, or a rest
MCNumerals ==
  {space \o sign \o digits :
     space \in {<<>>, <<" ">>}, sign \in {<<>>, <<"-">>, <<"+">>},
     digits \in {<<>>, <<"9">>, <<"1", "2", "7", "0">>, <<"0", "1", "2", "8">>,
                  <<"1", "2", " ", "7">>, <<"9", "-", "1">>}
                  \cup {<<a, b, c>> : a \in {"0", "1"}, b \in {"0", "2", "3"}, c \in Decimals}}

MCFormats ==
  {a \o b \o c :
     a \in {<<>>, <<"a">>, <<"%", "d">>, <<"%", "%">>},
     b \in {<<>>, <<"%", "x">>, <<"%", "0", "x">>, <<"%", "0", "4", "x">>, <<"%", "s">>,
            <<"%", "l", "l", "d">>, <<"%", "0", "2", "l", "l", "x">>},
     c \in {<<>>, <<"b">>, <<"%", "c">>, <<"%", "u">>, <<"%", "l">>, <<"%", "b">>,
            <<"a", "b", "a">>}}

MCInt == -29
MCString == <<"a", "b">>
MCMemory == <<1, 2, 3, 4, 5>>
MCLines == SeqOf({"a", " ", "\n"}, 5) \cup SeqOf({"a", " "}, 6)

Untouched == output.data = 0 /\ held = {} /\ init_pc = "idle"

MCNext ==
  \/ call = Idle /\ Next /\ UNCHANGED call
  \/ Untouched /\ TextNext /\ UNCHANGED vars

MCInit == Init /\ TextInit

MCSpec == MCInit /\ [][MCNext]_<<vars, call>>
=============================================================================
