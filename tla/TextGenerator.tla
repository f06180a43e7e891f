--------------------------- MODULE TextGenerator ---------------------------
(* What the llama programs promise, without a network, a cache or positions:*)
(* a request names a prompt, and the text grows one token at a time, each   *)
(* permitted by the logits of everything before it, until the token EndToken*)
(* comes or the request's limit is reached. A text that outgrows the room   *)
(* the network has is not promised anything.                                *)
EXTENDS Integers, Sequences

CONSTANTS
  Tokens, EndToken,
  PermittedAfter(_, _)   \* the tokens that may follow a text, for a request

None == [none |-> TRUE]

VARIABLES
  request,   \* None, or [prompt, limit, room, show_end, ...]: see PermittedAfter
  text,      \* the tokens generated so far, as they are shown
  status     \* "idle", "busy" or "failed"
vars == <<request, text, status>>

Init == request = None /\ text = <<>> /\ status = "idle"

\* A new request discards the text of the one before.
Accept == status = "idle" /\ status' = "busy" /\ request' # None /\ text' = <<>>

\* The whole text, the prompt included, stays below the limit.
Generate ==
  /\ status = "busy"
  /\ Len(request.prompt) + Len(text) < request.limit
  /\ \E token \in Tokens :
       /\ IF token = EndToken
          THEN status' = "idle" /\ text' = IF request.show_end THEN Append(text, token) ELSE text
          ELSE status' = "busy" /\ text' = Append(text, token)
       /\ token \in PermittedAfter(request.prompt \o text, request)
  /\ UNCHANGED request

Stop ==
  /\ status = "busy" /\ Len(request.prompt) + Len(text) >= request.limit
  /\ status' = "idle"
  /\ UNCHANGED <<request, text>>

\* The process ends, before a request or after an answer.
Fail == status = "idle" /\ status' = "failed" /\ request' = None /\ UNCHANGED text

\* The text has more tokens than the network has positions.
Lose ==
  /\ status = "busy" /\ Len(request.prompt) + Len(text) > request.room
  /\ status' = "failed" /\ request' = None /\ UNCHANGED text

Next == Accept \/ Generate \/ Stop \/ Fail \/ Lose

Safety == Init /\ [][Next]_vars
Answered == status = "busy" ~> status # "busy"
Spec == Safety /\ Answered
=============================================================================
