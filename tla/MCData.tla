------------------------------- MODULE MCData -------------------------------
(***************************************************************************)
(* The sequential parts of the library, for TLC: a behaviour is one of     *)
(* Json values (JsonValue), of the file cache (EasyCache) or of strings    *)
(* (Fastring), or it builds a text for the laws of the pure functions      *)
(* (MCText); the other parts stay in an initial state.                     *)
(***************************************************************************)
EXTENDS JsonValue, EasyCache, Fastring, MCText

VARIABLE part

MCRoot == <<"r">>
MCUrls == {<<"/">>, <<"/", "a">>, <<"/", ".", ".", "/", "b">>, <<".", ".", "/", "a">>}

Init ==
    /\ JsonInit /\ EasyInit /\ StrInit /\ TextInit
    /\ part \in {"json", "cache", "string", "law"}
    /\ part # "law" => kind = "format"
Next ==
    \/ part = "json" /\ JsonNext /\ UNCHANGED <<part, easyVars, strVars, textVars>>
    \/ part = "cache" /\ EasyNext /\ UNCHANGED <<part, jsonVars, strVars, textVars>>
    \/ part = "string" /\ StrNext /\ UNCHANGED <<part, jsonVars, easyVars, textVars>>
    \/ part = "law" /\ TextNext /\ UNCHANGED <<part, jsonVars, easyVars, strVars>>
Spec == Init /\ [][Next]_<<part, jsonVars, easyVars, strVars, textVars>>
=============================================================================
