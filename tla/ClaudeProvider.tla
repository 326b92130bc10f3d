---------------------------- MODULE ClaudeProvider ----------------------------
(***************************************************************************)
(* benchmark/provider/claude: a session of the Claude CLI as the benchmark *)
(* sees it.  The CLI's reply is a record [kind, long, answer, input,       *)
(* output, topInput, topOutput, duration], of which only an "ok" one has   *)
(* more than kind and long; kind is "ok", "failed" (the command exits with *)
(* an error), "garbled" (no JSON, is_error, an empty result) or "hang" (no *)
(* end before the query's deadline); long says that what is kept of it     *)
(* (the answer, or all that was printed) is more than benchreport reads in *)
(* one line.                                                               *)
(***************************************************************************)
EXTENDS Integers

NoId == << >>

NewSession(id) == [local |-> id, remote |-> NoId]

\* claudeSession.ID
ID(sess) == IF sess.remote # NoId THEN sess.remote ELSE sess.local

\* The conversation a query belongs to: the one the CLI is told to resume
\* ("echo"), a copy of it ("fork"), or a new one.
Talk(cli, resumed, new) == IF resumed # NoId /\ cli # "fork" THEN resumed ELSE new

\* The session id in the reply; some versions report none.
ReportedId(cli, resumed, new) == IF cli = "none" THEN NoId ELSE Talk(cli, resumed, new)

\* Faulty variant (for the mutation runs): the conversation is not remembered.
RememberNothing(sess, id) == sess

\* The session after a reply that could be read.
Remember(sess, id) == IF id = NoId THEN sess ELSE [sess EXCEPT !.remote = id]

\* Token counts under "usage", else those at top level.
Usage(reply) ==
    [prompt     |-> IF reply.input = 0 THEN reply.topInput ELSE reply.input,
     completion |-> IF reply.output = 0 THEN reply.topOutput ELSE reply.output]

Tokens(usage) == usage.prompt + usage.completion
=============================================================================
