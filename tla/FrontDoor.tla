----------------------------- MODULE FrontDoor -----------------------------
(***************************************************************************)
(* Submission behind the guard of the route: bearer token, sliding-window  *)
(* rate limit per principal and client, scope.  The guard awaits nothing   *)
(* that suspends it, so a request passes it in one step and goes on to the *)
(* handler, which is Submission.                                           *)
(*                                                                         *)
(* The limiter lives in the memory of an API process and dies with it.  A  *)
(* timestamp is kept as its age in seconds; an age past the window stops   *)
(* growing, since every such age is evicted alike.                         *)
(* The audit events of refused requests are append-only rows that nothing  *)
(* here reads and are left out.                                            *)
(***************************************************************************)
EXTENDS Submission, Sequences, FiniteSetsExt

CONSTANTS
    Records,      \* token_records: a sequence of names, secrets and scopes
    Clients,      \* request.client.host
    Window,       \* 60, the length of the window
    Limit,        \* settings.rate_limit_per_minute
    MaxRestarts   \* bound: restarts of one API process within one window

ASSUME DoorAssumption ==
    /\ \A i, j \in DOMAIN Records : Records[i].name = Records[j].name => i = j
    /\ Window \in Nat
    /\ Limit \in Nat \ {0}
    /\ MaxRestarts \in Nat

VARIABLES
    events,   \* per process and key: ages of the requests let through, oldest first
    recent,   \* history: the same within the window, restarts or not
    resets    \* history: per process the ages of its restarts within the window

doorVars == <<events, recent, resets>>

DoorKeys == {Records[i].name : i \in DOMAIN Records} \X Clients
Secrets == {Records[i].secret : i \in DOMAIN Records} \union {"unknown"}

DoorTypeOK ==
    /\ TypeOK
    /\ events \in [Processes -> [DoorKeys -> Seq(0..Window + 1)]]
    /\ recent \in [Processes -> [DoorKeys -> Seq(0..Window)]]
    /\ resets \in [Processes -> Seq(0..Window)]
    /\ \A p \in Processes, k \in DoorKeys :
        \A i, j \in DOMAIN events[p][k] : i < j => events[p][k][i] >= events[p][k][j]

Forgotten == [k \in DoorKeys |-> <<>>]

DoorInit ==
    /\ Init
    /\ events = [p \in Processes |-> Forgotten]
    /\ recent = [p \in Processes |-> Forgotten]
    /\ resets = [p \in Processes |-> <<>>]

-----------------------------------------------------------------------------

Matching(secret) == {i \in DOMAIN Records : Records[i].secret = secret}

\* authenticate tries every record and keeps the last that matches.
Principal(secret) == Records[Max(Matching(secret))]

Permits(principal, scope) == "admin" \in principal.scopes \/ scope \in principal.scopes

\* Faulty variant: the boundary is evicted too.
TooOldAtBoundary(age) == age >= Window

\* events[0] < cutoff
TooOld(age) == age > Window

\* popleft while the oldest event is too old.
Evicted(s) ==
    SubSeq(s, Min({i \in DOMAIN s : ~TooOld(s[i])} \union {Len(s) + 1}), Len(s))

\* check returns True
HasRoom(p, k) == Len(Evicted(events[p][k])) < Limit

\* Faulty variant: a refused request is remembered.
RemembersAll(p, k) == Append(Evicted(events[p][k]), 0)

\* check evicts in any case and remembers the request it lets through.
Remembers(p, k) == Evicted(events[p][k]) \o (IF HasRoom(p, k) THEN <<0>> ELSE <<>>)

Check(p, k) ==
    /\ events' = [events EXCEPT ![p][k] = Remembers(p, k)]
    /\ recent' = IF HasRoom(p, k) THEN [recent EXCEPT ![p][k] = Append(@, 0)] ELSE recent
    /\ UNCHANGED resets

\* 401: no record matches.  The limiter is not asked.
Unauthorized(p, secret) ==
    /\ pc[p] = "idle"
    /\ Matching(secret) = {}
    /\ UNCHANGED <<vars, doorVars>>

\* A request with a known token is counted first; then its scope is looked at.
Count(p, secret, client) ==
    /\ pc[p] = "idle"
    /\ Matching(secret) # {}
    /\ Check(p, <<Principal(secret).name, client>>)

\* The handler runs only for a request that has room and the scope.
Granted(p, secret, client, scope) ==
    /\ HasRoom(p, <<Principal(secret).name, client>>)
    /\ Permits(Principal(secret), scope)

\* POST /api/v1/review-jobs: 429, 403, or the submission reaches create_job.
PostJob(p, secret, client, s) ==
    /\ Count(p, secret, client)
    /\ IF Granted(p, secret, client, "reviews:write") THEN Receive(p, s) ELSE UNCHANGED vars

\* GET /api/v1/jobs: counted like any other request, and writes nothing,
\* whether it is answered or ends with 429 or 403.
GetJob(p, secret, client) == Count(p, secret, client) /\ UNCHANGED vars

\* An API process is replaced, busy or not: its deques are empty.
Replace(p) ==
    /\ \A q \in Processes : Len(resets[q]) < MaxRestarts
    /\ Crash(p) \/ (pc[p] = "idle" /\ UNCHANGED vars)
    /\ events' = [events EXCEPT ![p] = Forgotten]
    /\ resets' = [resets EXCEPT ![p] = Append(@, 0)]
    /\ UNCHANGED recent

\* Everything the handler and the purge do once a request is let through.
Handle ==
    /\ \/ \E p \in Processes : Serve(p)
       \/ \E j \in jobs : Purge(j)
    /\ UNCHANGED doorVars

Older(s) == [i \in DOMAIN s |-> Least(s[i] + 1, Window + 1)]

\* The newest part of a history, from the first age that is within the window.
WithinWindow(s) ==
    SubSeq(s, Min({i \in DOMAIN s : s[i] <= Window} \union {Len(s) + 1}), Len(s))

Tick ==
    /\ events' = [p \in Processes |-> [k \in DoorKeys |-> Older(events[p][k])]]
    /\ recent' = [p \in Processes |-> [k \in DoorKeys |-> WithinWindow(Older(recent[p][k]))]]
    /\ resets' = [p \in Processes |-> WithinWindow(Older(resets[p]))]
    /\ UNCHANGED vars

DoorNext ==
    \/ \E p \in Processes, secret \in Secrets :
        \/ Unauthorized(p, secret)
        \/ \E client \in Clients :
            \/ GetJob(p, secret, client)
            \/ \E s \in Submissions : PostJob(p, secret, client, s)
    \/ \E p \in Processes : Replace(p)
    \/ Handle
    \/ Tick

DoorSpec == DoorInit /\ [][DoorNext]_<<vars, doorVars>>

-----------------------------------------------------------------------------
(* Properties.                                                             *)

\* In every closed window a process lets a key through at most Limit times, and
\* that often again for every time it was replaced in that window.
QuotaHolds ==
    \A p \in Processes, k \in DoorKeys :
        Len(recent[p][k]) <= Limit * (1 + Len(resets[p]))

\* Nobody is refused early: a key that a process would answer 429 was let
\* through by it Limit times within the window, whatever others sent and however
\* often it was refused itself.
RefusalIsEarned ==
    \A p \in Processes, k \in DoorKeys : ~HasRoom(p, k) => Len(recent[p][k]) >= Limit
=============================================================================
