------------------------- MODULE SubscriptionTokens -------------------------
(***************************************************************************)
(* The credentials of a subscription provider (src/sdk/subscription.js,    *)
(* chatgpt.js, grok.js and the transport of fx-sdk.js): the sessions of one *)
(* account ask their host for credentials, refresh them before they expire *)
(* or once a request is refused, share a refresh with the process's other  *)
(* sessions, take turns with other servers under the host's lock, hand     *)
(* what they got back to the host, and try a failed request once more.     *)
(* Credentials are numbered in the order the provider issued them; a       *)
(* refresh token is good for one exchange.                                 *)
(***************************************************************************)
EXTENDS Integers, FiniteSets, Functions

CONSTANTS
  Sessions,    \* sessions of the account, each with requests one after another
  Setups,      \* [server, store: of each session, locked: the host gives refreshLock]
  SlowHost,    \* a call of the host may outlive the credentials it is about
  MaxVersion,  \* bound: credentials the provider issues
  MaxRequests, \* bound: requests
  MaxFaults    \* bound: cancels, network failures and failed saves, together

ASSUME TokensBoundsAssumption ==
  MaxVersion \in Nat \ {0} /\ MaxRequests \in Nat /\ MaxFaults \in Nat /\ SlowHost \in BOOLEAN
ASSUME SetupsAssumption ==
  IsFiniteSet(Sessions) /\ \A c \in Setups : c.store \in [Sessions -> Sessions] /\ c.locked \in BOOLEAN

VARIABLES
  setup,       \* the setup of this behaviour
  store,       \* the credentials each store of the host holds
  issued,      \* the provider: its newest credentials
  near,        \* those that are near their expiry
  refused,     \* those whose requests are answered with 401
  spends,      \* how often each refresh token was sent to be exchanged, 2 for more
  lost,        \* refresh tokens whose exchange was never heard of, or never saved
  descendants, \* of each server: the newest credentials from each it was supplied with
  refreshing,  \* of each server: the refresh that spends each refresh token
  saved,       \* of each server: which credentials went to which session's host
  holder,      \* the refresh that holds the host's lock on the account
  request,     \* the last request of each session
  begun,       \* how many requests were made
  faults

tokensVars == <<setup, store, issued, near, refused, spends, lost, descendants, refreshing, saved,
                holder, request, begun, faults>>
provider == <<issued, near, refused, spends, lost>>

Versions == 1 .. MaxVersion
Servers == {setup.server[s] : s \in Sessions}
\* A credentials object: as the host just supplied them (from = 0), or
\* remembered for those the host supplied.
Supplied(v) == [v |-> v, from |-> 0]
Free == [server |-> "none", token |-> 0]
RequestEnds == {"idle", "ok", "denied", "failed", "cancelled"}
Server(s) == setup.server[s]
NoRequest == [at |-> "idle", tries |-> 0, again |-> FALSE, supplied |-> 0, used |-> Supplied(0),
              why |-> "held", first |-> 0, aborted |-> FALSE, since |-> 0]
Tasks(p) == DOMAIN refreshing[p]
\* A map with one entry set.
With(f, k, x) == [i \in DOMAIN f \cup {k} |-> IF i = k THEN x ELSE f[i]]

TokensInit ==
  /\ setup \in Setups
  /\ store = [s \in Sessions |-> 1]
  /\ issued = 1 /\ near = {} /\ refused = {} /\ lost = {}
  /\ spends = [v \in Versions |-> 0]
  /\ descendants = [p \in Servers |-> <<>>]
  /\ refreshing = [p \in Servers |-> <<>>]
  /\ saved = {} /\ holder = Free /\ faults = 0
  /\ request = [s \in Sessions |-> NoRequest]
  /\ begun = 0

NeedsRefresh(v) == v \in near

-----------------------------------------------------------------------------
(* The provider's credentials age                                          *)

\* Nothing under way, a read or a save of the host or a refresh, is older than
\* the provider's newest credentials.
HostIsQuick ==
  /\ \A s \in Sessions : /\ request[s].at = "choose" => request[s].supplied = issued
                         /\ request[s].at \notin {"got", "saving"}
  /\ \A p \in Servers : Tasks(p) \subseteq {issued}

\* The newest credentials come near their expiry, or the provider refuses them.
GoesBad ==
  /\ issued < MaxVersion
  /\ ~SlowHost => HostIsQuick
  /\ \/ issued \notin near /\ near' = near \union {issued} /\ UNCHANGED refused
     \/ issued \notin refused /\ refused' = refused \union {issued} /\ UNCHANGED near
  /\ UNCHANGED <<setup, store, issued, spends, lost, descendants, refreshing, saved, holder,
                 request, begun, faults>>

-----------------------------------------------------------------------------
(* One request                                                             *)

FailsAtOnce(r) == IF r.aborted THEN [NoRequest EXCEPT !.at = "cancelled"]
                  ELSE [NoRequest EXCEPT !.at = "failed", !.since = r.since]
FailsNever(r) == IF r.aborted THEN [NoRequest EXCEPT !.at = "cancelled"]
                 ELSE [NoRequest EXCEPT !.at = "ask", !.tries = 2, !.since = r.since]
\* transportFetch(): an attempt that fails is made once more, but not one whose
\* signal is aborted.
Fails(r) == IF r.aborted THEN [NoRequest EXCEPT !.at = "cancelled"]
            ELSE IF r.tries = 2 THEN [NoRequest EXCEPT !.at = "failed", !.since = r.since]
            ELSE [NoRequest EXCEPT !.at = "ask", !.tries = 2, !.since = r.since]

\* The cancelled requests that may still cut a refresh off.
Cut == {s \in Sessions : request[s].at \notin RequestEnds /\ request[s].aborted}

Begin(s) ==
  /\ request[s].at \in RequestEnds /\ begun < MaxRequests
  /\ begun' = begun + 1
  /\ request' = [request EXCEPT ![s] =
       [NoRequest EXCEPT !.at = "ask", !.tries = 1, !.since = faults - Cardinality(Cut)]]
  /\ UNCHANGED <<setup, store, provider, descendants, refreshing, saved, holder, faults>>

\* The turn is cancelled: the request's signal is aborted, and whatever fetch it
\* has out rejects.
CancelRequest(s) ==
  /\ request[s].at \notin RequestEnds /\ ~request[s].aborted /\ faults < MaxFaults
  /\ faults' = faults + 1
  /\ request' = [request EXCEPT ![s].aborted = TRUE]
  /\ UNCHANGED <<setup, store, provider, descendants, refreshing, saved, holder, begun>>

\* credentials(): the host reads its store.
HostAnswers(s) ==
  /\ request[s].at = "ask"
  /\ request' = [request EXCEPT ![s].at = "choose", ![s].supplied = store[setup.store[s]]]
  /\ UNCHANGED <<setup, store, provider, descendants, refreshing, saved, holder, begun, faults>>

\* The refresh of credentials v: the one under way, or a new one, which waits
\* for the host's lock if there is one.
Task(s, supplied, v) ==
  [by |-> s, supplied |-> supplied, next |-> Supplied(v), at |-> IF setup.locked THEN "lock" ELSE "spend"]
JoinsNone(p, s, supplied, v) == With(refreshing[p], v, Task(s, supplied, v))
Joins(p, s, supplied, v) == IF v \in Tasks(p) THEN refreshing[p] ELSE With(refreshing[p], v, Task(s, supplied, v))
Refresh(s, r, v, why) ==
  /\ refreshing' = [refreshing EXCEPT ![Server(s)] = Joins(Server(s), s, r.supplied, v)]
  /\ request' = [request EXCEPT ![s] = [r EXCEPT !.at = "wait", !.used = Supplied(v), !.why = why]]

\* save(): credentials go to a session's host once, marked before they are sent.
Unsaved(s, o) == <<Server(s), o, s>> \notin saved
HandTo(s, o) == saved' = saved \union {<<Server(s), o, s>>}

ReplacedNever(r, o) == FALSE
\* After a refusal, credentials that another request replaced are used, and only
\* a refusal of the newest ones spends a refresh token.
Replaced(r, o) == o.v # r.first
Uses(s, r, o) ==
  IF ~r.again \/ r.why = "refused" \/ Replaced(r, o)
  THEN /\ request' = [request EXCEPT ![s] = [r EXCEPT !.at = "send", !.used = o, !.supplied = 0, !.why = "held"]]
       /\ UNCHANGED refreshing
  ELSE Refresh(s, r, o.v, "refused")

MustSaveOwn(s, o) == FALSE
\* Credentials that did not just come from the host are saved before they are used.
MustSave(s, o) == o.from # 0 /\ Unsaved(s, o)
Gets(s, r, o) ==
  IF MustSave(s, o)
  THEN /\ HandTo(s, o)
       /\ request' = [request EXCEPT ![s] = [r EXCEPT !.at = "saving", !.used = o]]
       /\ UNCHANGED refreshing
  ELSE Uses(s, r, o) /\ UNCHANGED saved

BestSupplied(p, v) == Supplied(v)
\* current(): the newest credentials from those the host supplied, refreshed if
\* they are near their expiry.
Best(p, v) == IF v \in DOMAIN descendants[p] THEN descendants[p][v] ELSE Supplied(v)
Choose(s) ==
  /\ request[s].at = "choose"
  /\ LET r == [request[s] EXCEPT !.why = "held"]
         o == Best(Server(s), r.supplied)
     IN IF NeedsRefresh(o.v) THEN Refresh(s, r, o.v, "near") /\ UNCHANGED saved
        ELSE Gets(s, r, o)
  /\ UNCHANGED <<setup, store, provider, descendants, holder, begun, faults>>

\* A refresh this request waited for has ended.
ResumeRequest(s) ==
  /\ request[s].at = "got"
  /\ Gets(s, request[s], request[s].used)
  /\ UNCHANGED <<setup, store, provider, descendants, holder, begun, faults>>

\* onCredentials(): the host writes its store, or fails to.
HostSaves(s) ==
  /\ request[s].at = "saving"
  /\ store' = [store EXCEPT ![setup.store[s]] = request[s].used.v]
  /\ Uses(s, request[s], request[s].used)
  /\ UNCHANGED <<setup, provider, descendants, saved, holder, begun, faults>>

HostFails(s) ==
  /\ request[s].at \in {"choose", "saving"} /\ faults < MaxFaults
  /\ faults' = faults + 1
  /\ request' = [request EXCEPT ![s] = Fails(@)]
  /\ UNCHANGED <<setup, store, provider, descendants, refreshing, saved, holder, begun>>

AnsweredAsIs(r) == IF r.used.v \notin refused THEN [NoRequest EXCEPT !.at = "ok"] ELSE [r EXCEPT !.at = "denied"]
\* The first 401 asks the host again, the second one is the core's.
Answered(r) ==
  IF r.used.v \notin refused THEN [NoRequest EXCEPT !.at = "ok"]
  ELSE IF r.again THEN [r EXCEPT !.at = "denied"]
  ELSE [r EXCEPT !.at = "ask", !.again = TRUE, !.first = r.used.v, !.used = Supplied(0)]

Send(s) ==
  /\ request[s].at = "send"
  /\ request' = [request EXCEPT ![s] = IF @.aborted THEN Fails(@) ELSE Answered(@)]
  /\ UNCHANGED <<setup, store, provider, descendants, refreshing, saved, holder, begun, faults>>

NetworkFails(s) ==
  /\ request[s].at = "send" /\ faults < MaxFaults
  /\ faults' = faults + 1
  /\ request' = [request EXCEPT ![s] = Fails(@)]
  /\ UNCHANGED <<setup, store, provider, descendants, refreshing, saved, holder, begun>>

-----------------------------------------------------------------------------
(* One refresh, for every request that waits for it                        *)

At(p, v, at) == v \in Tasks(p) /\ refreshing[p][v].at = at
Waits(s, p, v) == request[s].at = "wait" /\ Server(s) = p /\ request[s].used.v = v
\* finally(): however it ended, the refresh is no longer joined, and the host's
\* lock is free.
Forgets(p, v) == [refreshing EXCEPT ![p] = Restrict(@, Tasks(p) \ {v})]
ReleasedNever(p, v) == holder
Released(p, v) == IF holder = [server |-> p, token |-> v] THEN Free ELSE holder
RefreshEnds(p, v, Then(_)) ==
  /\ refreshing' = Forgets(p, v)
  /\ holder' = Released(p, v)
  /\ request' = [s \in Sessions |-> IF Waits(s, p, v) THEN Then(request[s]) ELSE request[s]]
Throws(p, v) == RefreshEnds(p, v, Fails)
Returns(p, v, o) == RefreshEnds(p, v, LAMBDA r : [r EXCEPT !.at = "got", !.used = o])
Remember(p, v, o) == [descendants EXCEPT ![p] = With(@, refreshing[p][v].supplied, o)]

Lock(p, v) ==
  /\ At(p, v, "lock") /\ holder = Free
  /\ holder' = [server |-> p, token |-> v]
  /\ refreshing' = [refreshing EXCEPT ![p][v].at = "ask"]
  /\ UNCHANGED <<setup, store, provider, descendants, saved, request, begun, faults>>

NewerNever(p, v, latest) == FALSE
\* Under the lock the host is asked again: another server may have refreshed.
Newer(p, v, latest) == latest \notin {v, refreshing[p][v].supplied} /\ ~NeedsRefresh(latest)
AskAgain(p, v) ==
  /\ At(p, v, "ask")
  /\ LET by == refreshing[p][v].by
         latest == store[setup.store[by]]
         o == [v |-> latest, from |-> refreshing[p][v].supplied]
     IN    \/ /\ Newer(p, v, latest)
              /\ descendants' = Remember(p, v, o)
              /\ saved' = {x \in saved : x[1] # p \/ x[2] # o} \union {<<p, o, by>>}
              /\ Returns(p, v, o)
           \/ /\ ~Newer(p, v, latest)
              /\ refreshing' = [refreshing EXCEPT ![p][v].at = "spend"]
              /\ UNCHANGED <<descendants, saved, holder, request>>
  /\ UNCHANGED <<setup, store, provider, begun, faults>>

\* The exchange reaches the provider, which takes a refresh token once; it fails
\* at once when the request that began it is cancelled.
CutOff(p, v) == LET r == request[refreshing[p][v].by] IN r.at = "wait" /\ r.aborted
Spend(p, v) ==
  /\ At(p, v, "spend") /\ ~CutOff(p, v)
  /\ spends' = [spends EXCEPT ![v] = IF @ = 0 THEN 1 ELSE 2]
  /\ \/ /\ v = issued /\ issued < MaxVersion
        /\ issued' = issued + 1
        /\ refreshing' = [refreshing EXCEPT ![p][v].at = "answer"]
        /\ UNCHANGED <<holder, request>>
     \/ v # issued /\ Throws(p, v) /\ UNCHANGED issued
  /\ UNCHANGED <<setup, store, near, refused, lost, descendants, saved, begun, faults>>

\* The new credentials are remembered, then saved for the session that began
\* the refresh.
Answers(p, v) ==
  /\ At(p, v, "answer") /\ ~CutOff(p, v)
  /\ LET o == [v |-> v + 1, from |-> refreshing[p][v].supplied]
         by == refreshing[p][v].by
     IN /\ descendants' = Remember(p, v, o)
        /\ refreshing' = [refreshing EXCEPT ![p][v].at = "saving", ![p][v].next = o]
        /\ HandTo(by, o)
  /\ UNCHANGED <<setup, store, provider, holder, request, begun, faults>>

TaskSaves(p, v) ==
  /\ At(p, v, "saving")
  /\ store' = [store EXCEPT ![setup.store[refreshing[p][v].by]] = refreshing[p][v].next.v]
  /\ Returns(p, v, refreshing[p][v].next)
  /\ UNCHANGED <<setup, provider, descendants, saved, begun, faults>>

\* The exchange or a call of the host fails, or the exchange is cut off.
TaskFails(p, v) ==
  /\ v \in Tasks(p) /\ refreshing[p][v].at \in {"ask", "spend", "answer", "saving"}
  /\ \/ faults < MaxFaults /\ faults' = faults + 1
     \/ refreshing[p][v].at \in {"spend", "answer"} /\ CutOff(p, v) /\ UNCHANGED faults
  /\ lost' = IF refreshing[p][v].at \in {"answer", "saving"} THEN lost \union {v} ELSE lost
  /\ Throws(p, v)
  /\ UNCHANGED <<setup, store, issued, near, refused, spends, descendants, saved, begun>>

-----------------------------------------------------------------------------
Moves(s) ==
  \/ HostAnswers(s) \/ Choose(s) \/ ResumeRequest(s) \/ HostSaves(s) \/ Send(s)
Works(p, v) ==
  \/ Lock(p, v) \/ AskAgain(p, v) \/ Spend(p, v) \/ Answers(p, v) \/ TaskSaves(p, v)
  \/ TaskFails(p, v)

TokensNext ==
  \/ GoesBad
  \/ \E s \in Sessions : Begin(s) \/ CancelRequest(s) \/ Moves(s) \/ HostFails(s) \/ NetworkFails(s)
  \/ \E p \in Servers : \E v \in Tasks(p) : Works(p, v)

TokensSpec == TokensInit /\ [][TokensNext]_tokensVars

\* Every fetch and every call of the host ends, and a lock that is free is given
\* to one who waits.
TokensProgress == (\E s \in Sessions : Moves(s)) \/ \E p \in Servers : \E v \in Tasks(p) : Works(p, v)
TokensFairSpec == TokensSpec /\ WF_tokensVars(TokensProgress)

-----------------------------------------------------------------------------
TokensTypeOK ==
  /\ setup \in Setups /\ store \in [Sessions -> Versions] /\ issued \in Versions
  /\ near \subseteq Versions /\ refused \subseteq Versions /\ lost \subseteq Versions
  /\ \A p \in Servers : Tasks(p) \subseteq Versions /\ DOMAIN descendants[p] \subseteq Versions
  /\ \A s \in Sessions : request[s].used.v \in 0 .. issued
  /\ holder # Free => holder.token \in Tasks(holder.server) /\ faults \in 0 .. MaxFaults

Shared == \A s, z \in Sessions : setup.store[s] = setup.store[z]
\* The sessions are on one server, or the host gives a lock.
Guarded == setup.locked \/ \A s, z \in Sessions : setup.server[s] = setup.server[z]

\* A refresh token is spent once, however many sessions, servers and refusals
\* there are, until the answer to an exchange is lost or its save fails: where
\* the sessions share a store, on one server or under the host's lock
\* (subscription.js:153, 182 and 244).
SpentOnce == Shared /\ Guarded /\ lost = {} => \A v \in Versions : spends[v] <= 1

\* The same for sessions with stores of their own: what the comment at
\* subscription.js:153 says, and not so once a token was refreshed twice while
\* another session's store is behind.
NeverSpentTwice == lost = {} => \A v \in Versions : spends[v] <= 1

\* Credentials a session sends a request with came from its host or were handed
\* to it, also those another session's request fetched (line 166).
HostsAreTold ==
  \A s \in Sessions : request[s].at = "send" /\ request[s].used.from # 0 =>
    <<Server(s), request[s].used, s>> \in saved

\* A request fails only after two faults in its time, its own or of a refresh it
\* joined, unless the account's newest refresh token is gone: another session's
\* cancel or failed refresh does not fail it (lines 208 to 218, fx-sdk.js:2572).
FailsForAReason ==
  Shared => \A s \in Sessions :
    request[s].at = "failed" => faults - request[s].since >= 2 \/ lost # {}

\* The core sees a 401 only once two different credentials were refused (line 246).
DeniedTwice ==
  \A s \in Sessions : request[s].at = "denied" =>
    /\ request[s].again /\ request[s].first # request[s].used.v
    /\ {request[s].first, request[s].used.v} \subseteq refused

\* Every request ends, whatever becomes of the refresh and the lock it waits for.
RequestsEnd == \A s \in Sessions : [](request[s].at \notin RequestEnds => <>(request[s].at \in RequestEnds))
=============================================================================
