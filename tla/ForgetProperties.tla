--------------------------- MODULE ForgetProperties --------------------------
(* What a purge that runs to its end has forgotten.                          *)
EXTENDS Forget

ForgetTypeOK ==
  /\ rows \subseteq Conversation /\ words \subseteq Conversation
  /\ trace \subseteq Conversation /\ notes \subseteq Conversation
  /\ oldFiles \subseteq files /\ files \subseteq Conversation
  /\ inTurn \subseteq Conversation /\ owners \subseteq Person
  /\ purge \in [phase : {"none", "first", "second", "done"}, todo : Seq(Conversation),
                step : {"words", "trace", "notes", "row", "file"}, spared : SUBSET Person]
  /\ due \subseteq Conversation /\ disturbed \subseteq Conversation

\* A purge that ends has forgotten every customer's conversation that had a
\* session or words when it began and that nobody wrote to since: its words, its
\* tool trace, the notes about it and its session, whatever earlier purges that
\* died on the way had left of it.
ForgottenWhole ==
  purge.phase = "done" =>
    (due \ disturbed) \cap (rows \cup words \cup trace \cup notes) = {}
=============================================================================
