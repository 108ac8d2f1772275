---------------------------- MODULE AsyncResource ----------------------------
(***************************************************************************)
(* What a page of the console has loaded: the state of one                 *)
(* useAsyncResource. A load is a call in flight with the key it was asked  *)
(* with and, once the server has read it, the answer. Loads are not        *)
(* numbered by the hook: whichever is applied last is what the page shows. *)
(***************************************************************************)
EXTENDS Integers, Sequences, SequencesExt

CONSTANT None  \* no value: null, undefined, '' or nothing chosen

\* A page that has just been mounted shows a spinner.
Mounted == [data |-> None, loading |-> TRUE, failed |-> FALSE, calls |-> <<>>]

\* load: the data of the load before stays until the answer is there.
Load(r, key) ==
    [r EXCEPT !.loading = TRUE, !.failed = FALSE,
              !.calls = Append(@, [key |-> key, answer |-> None])]

\* The server reads the answer to the i-th call; it travels from then on.
Served(r, i, value) == [r EXCEPT !.calls[i].answer = value]

\* The answer is applied. Another load may still be in flight: loading says
\* no more than that the last load to end has ended.
Applied(r, i) ==
    [r EXCEPT !.data = r.calls[i].answer, !.loading = FALSE,
              !.calls = RemoveAt(@, i)]

\* The call failed: data stays, and so does the error until the next load.
Failed(r, i) ==
    [r EXCEPT !.failed = TRUE, !.loading = FALSE, !.calls = RemoveAt(@, i)]

\* Every call that waits for the server, and every one that has its answer.
Waiting(r) == {i \in DOMAIN r.calls : r.calls[i].answer = None}
Answered(r) == {i \in DOMAIN r.calls : r.calls[i].answer # None}

Quiet(r) == r.calls = <<>>
=============================================================================
