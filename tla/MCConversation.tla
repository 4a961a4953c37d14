--------------------------- MODULE MCConversation ---------------------------
(* The instance of TtsOutput for TLC: two turns with two threads that cancel,  *)
(* and one turn whose answer is spoken while the session ends by itself.       *)
EXTENDS TtsOutput

Talk == [turns |-> 2, polls |-> 1, cancelers |-> Cancelers, speech |-> FALSE]
Speak == [turns |-> 1, polls |-> 1, cancelers |-> {}, speech |-> TRUE]

MCScenes == {Talk, Speak}
=============================================================================
