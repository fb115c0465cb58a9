------------------------------- MODULE HttpLock -------------------------------
(***************************************************************************)
(* The RwLock around the HTTP client that all requests share               *)
(* (dap-lib/src/http_client/http_client_main.rs).  A request holds it for  *)
(* reading from send until the response's head; the endpoint resolution    *)
(* takes it for writing to swap the client.  tokio's lock is fair: who     *)
(* asks while others wait queues behind them, a reader too.                *)
(***************************************************************************)
CONSTANT Swap       \* the write request of the endpoint resolution

VARIABLES
    ahead,          \* ahead[r]: those in the queue before r, for each r that waits
    holders         \* the requests that hold the lock

lockVars == <<ahead, holders>>

waiting == DOMAIN ahead

\* The queue when some requests have left it.
Without(requests) == [r \in waiting \ requests |-> ahead[r] \ requests]

LockInit ==
    /\ ahead = [r \in {} |-> {}]
    /\ holders = {}

\* read() or write() is polled for the first time.
Ask(request) ==
    ahead' = [r \in waiting \cup {request} |-> IF r = request THEN waiting ELSE ahead[r]]

\* Readers share the lock, and the writer has it alone.
Compatible(request) == IF request = Swap THEN holders = {} ELSE Swap \notin holders

\* Mutant: readers overtake a waiting writer.
GrantReaders ==
    \E r \in waiting :
        /\ Compatible(r)
        /\ holders' = holders \cup {r}
        /\ ahead' = Without({r})

\* The oldest request gets the lock as soon as those who hold it allow it.
Grant ==
    \E r \in waiting :
        /\ ahead[r] = {}
        /\ Compatible(r)
        /\ holders' = holders \cup {r}
        /\ ahead' = Without({r})

Release(request) == holders' = holders \ {request}

\* The futures that wait for requests, or hold a guard for them, are dropped.
Drop(requests) ==
    /\ ahead' = Without(requests)
    /\ holders' = holders \ requests

=============================================================================
