---------------------------- MODULE Credentials ----------------------------
(***************************************************************************)
(* The Codex login that every model call of the server borrows             *)
(* (packages/codedelta-provider-runtime/src/codex-auth.ts and              *)
(* codex-http.ts).  The login is a file the process shares with the Codex  *)
(* command line; its access token expires and is renewed with a refresh    *)
(* token that the service accepts once.  Nothing serialises the borrowers  *)
(* of one process: each reads the file, and each that finds the access     *)
(* token stale posts its own refresh.                                      *)
(*                                                                         *)
(* Refresh tokens are numbered in the order the service issues them.       *)
(***************************************************************************)
EXTENDS Naturals

CONSTANTS Borrowers,   \* the callers of borrowCodexCredentials
          MaxTokens,   \* bound: refresh tokens the service issues
          Attempts     \* codex-auth.ts:141: retries: 2

VARIABLES authFile,    \* ~/.codex/auth.json: the refresh token, and is the access token fresh
          service,     \* the one refresh token the service still accepts
          borrow,      \* [Borrowers -> where its borrowing stands]
          lost         \* has an answer of the service that renewed the token been lost

credVars == <<authFile, service, borrow, lost>>

Idle   == [at |-> "idle", token |-> 0, try |-> 0]
Lent   == [at |-> "lent", token |-> 0, try |-> 0]
Failed == [at |-> "failed", token |-> 0, try |-> 0]

\* "asking": the POST has not reached the service; "answered", "refused": its reply is on the way.
Borrowing == [at: {"asking", "answered", "refused"}, token: 0 .. MaxTokens, try: 1 .. Attempts]

CredTypeOK == /\ authFile \in [refresh: 0 .. MaxTokens, fresh: BOOLEAN]
              /\ service \in 0 .. MaxTokens
              /\ borrow \in [Borrowers -> Borrowing \union {Idle, Lent, Failed}]
              /\ lost \in BOOLEAN

CredInit == /\ authFile \in [refresh: {0}, fresh: BOOLEAN]
            /\ service = 0
            /\ borrow = [b \in Borrowers |-> Idle]
            /\ lost = FALSE

InFlight(b) == borrow[b].at \in {"asking", "answered", "refused"}

\* The synchronous part of borrowCodexCredentials: the file is read before the await.
Borrowed == IF authFile.fresh THEN Lent
                              ELSE [at |-> "asking", token |-> authFile.refresh, try |-> 1]

\* The token endpoint: it renews the token it accepts, once, and refuses an older one.
Answer(b) ==
  /\ borrow[b].at = "asking"
  /\ \/ /\ borrow[b].token = service
        /\ service < MaxTokens
        /\ service' = service + 1
        /\ borrow' = [borrow EXCEPT ![b].at = "answered", ![b].token = service + 1]
     \/ /\ borrow[b].token # service
        /\ borrow' = [borrow EXCEPT ![b].at = "refused"]
        /\ UNCHANGED service
  /\ UNCHANGED <<authFile, lost>>

\* What b posted: the reply that renewed a token carries the next one.
Asked(b) == IF borrow[b].at = "answered" THEN borrow[b].token - 1 ELSE borrow[b].token

\* fetchOnce aborts after its timeout or loses the connection, before or after the service has
\* answered; fetchWithRetry posts the same refresh token again while it has attempts left.
TimeOut(b) ==
  /\ InFlight(b)
  /\ borrow' = [borrow EXCEPT ![b] = IF @.try < Attempts
                                     THEN [at |-> "asking", token |-> Asked(b), try |-> @.try + 1]
                                     ELSE Failed]
  /\ lost' = (lost \/ borrow[b].at = "answered")
  /\ UNCHANGED <<authFile, service>>

\* Mutant: only the access token of the reply is stored.
Receive_AccessOnly(b) ==
  /\ \/ /\ borrow[b].at = "answered"
        /\ authFile' = [authFile EXCEPT !.fresh = TRUE]
        /\ borrow' = [borrow EXCEPT ![b] = Lent]
     \/ /\ borrow[b].at = "refused"
        /\ borrow' = [borrow EXCEPT ![b] = Failed]
        /\ UNCHANGED authFile
  /\ UNCHANGED <<service, lost>>

\* The reply arrives: an accepted refresh is written to the file at once, whole.
Receive(b) ==
  /\ \/ /\ borrow[b].at = "answered"
        /\ authFile' = [refresh |-> borrow[b].token, fresh |-> TRUE]
        /\ borrow' = [borrow EXCEPT ![b] = Lent]
     \/ /\ borrow[b].at = "refused"
        /\ borrow' = [borrow EXCEPT ![b] = Failed]
        /\ UNCHANGED authFile
  /\ UNCHANGED <<service, lost>>

Expire == /\ authFile.fresh
          /\ authFile' = [authFile EXCEPT !.fresh = FALSE]
          /\ UNCHANGED <<service, borrow, lost>>

\* The process is killed: its requests are abandoned, the answers to them reach nobody.
Abandon == /\ borrow' = [b \in Borrowers |-> Idle]
           /\ lost' = (lost \/ \E b \in Borrowers : borrow[b].at = "answered")
           /\ UNCHANGED <<authFile, service>>

CredStep(b) == Answer(b) \/ TimeOut(b) \/ Receive(b)

(***************************************************************************)
(* Several borrowers refresh with the same token and only one is answered: *)
(* as long as no answer was lost on its way, the token the service accepts *)
(* is the one in the file, or on its way to the borrower that writes it -  *)
(* a late or refused borrower never puts an older token back.  Otherwise   *)
(* the user would have to log in again, in the Codex CLI too.              *)
(***************************************************************************)
TokenIsKept ==
  \/ lost
  \/ authFile.refresh = service
  \/ \E b \in Borrowers : borrow[b].at = "answered" /\ borrow[b].token = service
=============================================================================
