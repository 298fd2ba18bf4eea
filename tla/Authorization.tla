----------------------------- MODULE Authorization -----------------------------
(***************************************************************************)
(* src/setup/action/authorization: the privileged actions of a plan. The   *)
(* parent applies the ordinary actions, records what is left as pending,   *)
(* and asks for the rest in authorization-request.json; a child that the   *)
(* system elevated takes the request up, once, and runs of its own plan    *)
(* what was displayed. People run the child by hand, too, and put back     *)
(* requests they kept.                                                     *)
(***************************************************************************)
EXTENDS NoValue, Naturals, FiniteSets

CONSTANTS Parents,     \* the setups that ask
          Children,    \* privileged processes
          Elevatable,  \* the names of the actions that need privilege
          Plans,       \* what a plan does under some of them: functions
          Lifetime,    \* of a request
          MaxTime, MaxAsks, MaxChildren,
          MaxTroubles, \* faults and interventions; every request but the first
          AskCosts     \* takes up so many of them

VARIABLES now,
          host,        \* what the check of each action answers
          receipt,     \* the user's: changes so far, and the current pendings
          request,     \* authorization-request.json: a file, or None
          records,     \* of the requests taken up, in the system directory
          parent, child,
          asked, written, ran,  \* requests agreed to; ever written; what ran for them
          rest         \* what is left of the bounds

authVars == <<now, host, receipt, request, records, parent, child, asked, written, ran, rest>>

Checks == {"todo", "done", "human"}
StepsOf(plan, names) == {<<a, plan[a]>> : a \in names}

NoSetup == [at |-> "idle", plan |-> [a \in {} |-> None], consent |-> FALSE, now |-> 0, rev |-> 0,
            ask |-> 0, todo |-> {}, human |-> {}, want |-> None, of |-> None]
NoChild == [at |-> "idle", plan |-> [a \in {} |-> None], want |-> None, now |-> 0, file |-> 0,
            run |-> 0, todo |-> {}]

AuthInit ==
  /\ now = 0
  /\ host = [a \in Elevatable |-> "todo"]
  /\ receipt = [rev |-> 0, current |-> [a \in Elevatable |-> None]]
  /\ request = None
  /\ records = [made |-> {}, durable |-> {}]
  /\ parent = [p \in Parents |-> NoSetup]
  /\ child = [c \in Children |-> NoChild]
  /\ asked = {} /\ written = {} /\ ran = {}
  /\ rest = [asks |-> MaxAsks, children |-> MaxChildren, troubles |-> MaxTroubles]

SetupGoes(p, step) == parent' = [parent EXCEPT ![p].at = step]
SetupEnds(p) == parent' = [parent EXCEPT ![p] = NoSetup]
ChildGoes(c, step) == child' = [child EXCEPT ![c].at = step]
\* Of a child that nobody waits for, nothing is left.
ChildEnds(c, how) ==
  child' = [child EXCEPT ![c] = [NoChild EXCEPT !.at =
              IF \E p \in Parents : parent[p].of = c THEN how ELSE "idle"]]
Spend(what) == rest[what] > 0 /\ rest' = [rest EXCEPT ![what] = @ - 1]

\* Which of those at rest is next makes no difference.
AnyOf(set) == IF set = {} THEN {} ELSE {CHOOSE x \in set : TRUE}
IdleSetups == AnyOf({p \in Parents : parent[p].at = "idle"})
Unused == AnyOf({c \in Children : child[c].at = "idle"})

OnlySetups == UNCHANGED <<now, host, records, ran>>
OnlyChildren == UNCHANGED <<now, receipt, parent, asked, written>>

(***************************************************************************)
(* The parent.                                                             *)
(***************************************************************************)
\* execute_with_authorization: the context is captured and the ordinary actions
\* are applied under the lock of the receipt, which may change it.
Begin(p) ==
  /\ p \in IdleSetups /\ rest.asks > 0
  /\ rest.asks < MaxAsks => rest.troubles >= AskCosts
  /\ rest' = [rest EXCEPT !.asks = @ - 1,
                          !.troubles = IF rest.asks = MaxAsks THEN @ ELSE @ - AskCosts]
  /\ \E plan \in Plans, consent, changes \in BOOLEAN :
       LET rev == receipt.rev + IF changes THEN 1 ELSE 0
       IN /\ parent' = [parent EXCEPT ![p] = [NoSetup EXCEPT
                          !.at = "check", !.plan = plan, !.consent = consent, !.now = now,
                          !.rev = rev, !.ask = rest.asks]]
          /\ receipt' = [receipt EXCEPT !.rev = rev]
  /\ OnlySetups /\ UNCHANGED <<request, child, asked, written>>

Check(p) ==
  /\ parent[p].at = "check"
  /\ parent' = [parent EXCEPT ![p].at = "complete",
                 ![p].todo = {a \in DOMAIN parent[p].plan : host[a] = "todo"},
                 ![p].human = {a \in DOMAIN parent[p].plan : host[a] = "human"}]
  /\ OnlySetups /\ UNCHANGED <<receipt, request, child, asked, written, rest>>

\* should_invoke.
MayAsk(p) == parent[p].todo # {} /\ parent[p].consent

Displayed(p) == [id |-> parent[p].ask, issued |-> parent[p].now,
                 steps |-> StepsOf(parent[p].plan, parent[p].todo)]

\* complete_authorized_execution: what is left is recorded, if the receipt is still
\* that of the ordinary actions; a pending of other parameters is a conflict.
Record(names, plan) ==
  LET current == [a \in Elevatable |-> IF a \in names THEN plan[a] ELSE receipt.current[a]]
  IN receipt' = [rev |-> receipt.rev + IF current = receipt.current THEN 0 ELSE 1,
                 current |-> current]

Complete(p) ==
  LET s == parent[p]
      pending == s.todo \cup s.human
      clash == {a \in pending : receipt.current[a] \notin {None, s.plan[a]}}
  IN /\ s.at = "complete"
     /\ \/ /\ receipt.rev = s.rev /\ clash = {}
           /\ Record(pending, s.plan)
           /\ parent' = [parent EXCEPT ![p] =
                IF MayAsk(p) THEN [s EXCEPT !.at = "create", !.want = Displayed(p)]
                             ELSE NoSetup]
           /\ asked' = IF s.consent THEN asked \cup {Displayed(p)} ELSE asked
           /\ UNCHANGED rest
        \/ /\ receipt.rev # s.rev
           /\ SetupEnds(p) /\ UNCHANGED <<receipt, asked, rest>>
        \/ /\ receipt.rev = s.rev
           /\ IF clash = {} THEN Spend("troubles") ELSE UNCHANGED rest
           /\ \E names \in SUBSET (pending \ clash) : Record(names, s.plan)
           /\ SetupEnds(p) /\ UNCHANGED asked
     /\ OnlySetups /\ UNCHANGED <<request, child, written>>

\* write_prepared_authorization_request: an exclusive creation, then its bytes.
CreateRequest(p) ==
  /\ parent[p].at = "create"
  /\ IF request # None THEN SetupEnds(p) /\ UNCHANGED request
     ELSE /\ request' = [file |-> p, content |-> None]
          /\ SetupGoes(p, "write")
  /\ OnlySetups /\ UNCHANGED <<receipt, child, asked, written, rest>>

WriteRequest(p) ==
  LET want == parent[p].want IN
  /\ parent[p].at = "write"
  /\ \/ /\ request' = IF request # None /\ request.file = p
                      THEN [request EXCEPT !.content = want] ELSE request
        /\ written' = written \cup {want}
        /\ IF request = None THEN SetupEnds(p) ELSE SetupGoes(p, "invoke")
        /\ UNCHANGED rest
     \/ /\ Spend("troubles")
        /\ request' = None /\ SetupEnds(p) /\ UNCHANGED written
  /\ OnlySetups /\ UNCHANGED <<receipt, child, asked>>

\* The native launcher, which people answer: it starts the child, or declines.
Started(plan, want) ==
  [NoChild EXCEPT !.at = "read", !.plan = plan, !.want = want, !.now = now,
                  !.run = rest.children]

Invoke(p) ==
  /\ parent[p].at = "invoke"
  /\ \/ /\ Spend("children")
        /\ \E c \in Unused, plan \in Plans :
             /\ child' = [child EXCEPT ![c] = Started(plan, parent[p].want)]
             /\ parent' = [parent EXCEPT ![p].at = "await", ![p].of = c]
     \/ SetupGoes(p, "withdraw") /\ UNCHANGED <<child, rest>>
  /\ OnlySetups /\ UNCHANGED <<receipt, request, asked, written>>

\* AuthorizationLaunched, or an error.
Await(p) ==
  LET c == parent[p].of IN
  /\ parent[p].at = "await"
  /\ child[c].at \in {"succeeded", "failed"}
  /\ child' = [child EXCEPT ![c] = NoChild]
  /\ IF child[c].at = "succeeded" THEN SetupEnds(p) ELSE SetupGoes(p, "withdraw")
  /\ OnlySetups /\ UNCHANGED <<receipt, request, asked, written, rest>>

\* Whoever's request it is by now.
Withdraw(p) ==
  /\ parent[p].at = "withdraw"
  /\ request' = None /\ SetupEnds(p)
  /\ OnlySetups /\ UNCHANGED <<receipt, child, asked, written, rest>>

(***************************************************************************)
(* run_privileged_request.                                                 *)
(***************************************************************************)
\* By hand, with the digest of any request that was ever written.
RunByHand(c) ==
  /\ c \in Unused /\ Spend("children")
  /\ \E want \in written, plan \in Plans :
       child' = [child EXCEPT ![c] = Started(plan, want)]
  /\ OnlyChildren /\ UNCHANGED <<host, request, records, ran>>

\* validate_request.
InTime(want, time) == want.issued <= time /\ time < want.issued + Lifetime

\* read_request.
Found(c) == request # None /\ request.content = child[c].want

ReadRequest(c) ==
  /\ child[c].at = "read"
  /\ IF Found(c) /\ InTime(child[c].want, child[c].now)
     THEN child' = [child EXCEPT ![c].at = "reserve", ![c].file = request.file]
     ELSE ChildEnds(c, "failed")
  /\ OnlyChildren /\ UNCHANGED <<host, request, records, ran, rest>>

\* reserve_authorization: the record is created exclusively.
Free(id) == id \notin records.made

Reserve(c) ==
  LET id == child[c].want.id IN
  /\ child[c].at = "reserve"
  /\ IF Free(id) THEN records' = [records EXCEPT !.made = @ \cup {id}] /\ ChildGoes(c, "sync")
                 ELSE ChildEnds(c, "failed") /\ UNCHANGED records
  /\ OnlyChildren /\ UNCHANGED <<host, request, ran, rest>>

\* The file and its directory are synced, or the record is removed again.
Synced(id) == records' = [records EXCEPT !.durable = @ \cup {id}]

SyncRecord(c) ==
  LET id == child[c].want.id IN
  /\ child[c].at = "sync"
  /\ \/ Synced(id) /\ ChildGoes(c, "check") /\ UNCHANGED rest
     \/ /\ Spend("troubles")
        /\ records' = [records EXCEPT !.made = @ \ {id}]
        /\ ChildEnds(c, "failed")
  /\ OnlyChildren /\ UNCHANGED <<host, request, ran>>

CheckChild(c) ==
  /\ child[c].at = "check"
  /\ child' = [child EXCEPT ![c].at = "consume",
                ![c].todo = {a \in DOMAIN child[c].plan : host[a] = "todo"}]
  /\ OnlyChildren /\ UNCHANGED <<host, request, records, ran, rest>>

\* Seeded fault: the parameters are not compared.
DisplayedByName(c) == child[c].todo \subseteq {step[1] : step \in child[c].want.steps}

\* Every action it would run was displayed with the parameters it has.
WasDisplayed(c) == StepsOf(child[c].plan, child[c].todo) \subseteq child[c].want.steps

\* The very file that was read is consumed.
Consume(c) ==
  LET k == child[c] IN
  /\ k.at = "consume"
  /\ IF WasDisplayed(c) /\ request # None /\ request.file = k.file
     THEN request' = None /\ ChildGoes(c, "lock")
     ELSE ChildEnds(c, "failed") /\ UNCHANGED request
  /\ OnlyChildren /\ UNCHANGED <<host, records, ran, rest>>

\* apply_plan_with_journal under the lock of the system receipt: checked again.
LockSystem(c) ==
  /\ child[c].at = "lock"
  /\ \A d \in Children : child[d].at # "apply"
  /\ ChildGoes(c, "apply")
  /\ OnlyChildren /\ UNCHANGED <<host, request, records, ran, rest>>

ApplyAction(c) ==
  /\ child[c].at = "apply"
  /\ child[c].todo # {}
  /\ LET a == CHOOSE x \in child[c].todo : TRUE IN
       /\ child' = [child EXCEPT ![c].todo = @ \ {a}]
       /\ IF host[a] = "todo"
          THEN /\ host' = [host EXCEPT ![a] = "done"]
               /\ ran' = ran \cup {[want |-> child[c].want, step |-> <<a, child[c].plan[a]>>,
                                    run |-> child[c].run, at |-> child[c].now]}
          ELSE UNCHANGED <<host, ran>>
  /\ OnlyChildren /\ UNCHANGED <<request, records, rest>>

Succeed(c) ==
  /\ child[c].at = "apply" /\ child[c].todo = {}
  /\ ChildEnds(c, "succeeded")
  /\ OnlyChildren /\ UNCHANGED <<host, request, records, ran, rest>>

(***************************************************************************)
(* Everything else.                                                        *)
(***************************************************************************)
\* A process ends where it is: an error, or killed.
Stop ==
  /\ Spend("troubles")
  /\ \/ \E p \in Parents : /\ parent[p].at # "idle" /\ SetupEnds(p)
                            /\ child' = [c \in Children |->
                                 IF parent[p].of = c /\ child[c].at \in {"succeeded", "failed"}
                                 THEN NoChild ELSE child[c]]
     \/ \E c \in Children : child[c].at \notin {"idle", "succeeded", "failed"}
                            /\ ChildEnds(c, "failed") /\ UNCHANGED parent
  /\ UNCHANGED <<now, host, receipt, request, records, asked, written, ran>>

\* The record that was made but not synced may be lost.
PowerLoss ==
  /\ Spend("troubles")
  /\ records' = [records EXCEPT !.made = records.durable]
  /\ request' \in {request, None}
  /\ parent' = [p \in Parents |-> NoSetup] /\ child' = [c \in Children |-> NoChild]
  /\ UNCHANGED <<now, host, receipt, asked, written, ran>>

\* Before the first setup the time is any time.
Tick == now < MaxTime /\ now' = now + 1 /\ rest.asks < MaxAsks
        /\ UNCHANGED <<host, receipt, request, records, parent, child, asked, written, ran, rest>>

\* The user, who owns the directory, puts a request back.
PutBack ==
  /\ Spend("troubles")
  /\ \E want \in written : request' = [file |-> None, content |-> want]
  /\ UNCHANGED <<now, host, receipt, records, parent, child, asked, written, ran>>

\* Others do or undo what an action is about, and apply and publish plans.
Others ==
  /\ Spend("troubles")
  /\ \/ /\ \E a \in Elevatable, answer \in Checks : host' = [host EXCEPT ![a] = answer]
        /\ UNCHANGED receipt
     \/ /\ \E names \in {{}, Elevatable} :
             receipt' = [rev |-> receipt.rev + 1,
                         current |-> [a \in Elevatable |-> IF a \in names THEN receipt.current[a]
                                                           ELSE None]]
        /\ UNCHANGED host
  /\ UNCHANGED <<now, request, records, parent, child, asked, written, ran>>

SetupStep(p) == \/ Begin(p) \/ Check(p) \/ Complete(p) \/ CreateRequest(p) \/ WriteRequest(p)
                \/ Invoke(p) \/ Await(p) \/ Withdraw(p)

ChildStep(c) == \/ RunByHand(c) \/ ReadRequest(c) \/ Reserve(c) \/ SyncRecord(c)
                \/ CheckChild(c) \/ Consume(c) \/ LockSystem(c) \/ ApplyAction(c) \/ Succeed(c)

AuthNext == \/ \E p \in Parents : SetupStep(p)
        \/ \E c \in Children : ChildStep(c)
        \/ Stop \/ PowerLoss \/ Tick \/ PutBack \/ Others

AuthSpec == AuthInit /\ [][AuthNext]_authVars

(***************************************************************************)
(* What runs with privilege was displayed with the parameters it runs      *)
(* with, in a request a human agreed to no longer than its lifetime ago;   *)
(* and whatever is killed, put back, run by hand or cut off from power,    *)
(* one child at most acts on a request.                                    *)
(***************************************************************************)
AuthorizedOnce ==
  \A r \in ran :
    /\ r.want \in asked /\ r.step \in r.want.steps
    /\ r.want.issued <= r.at /\ r.at < r.want.issued + Lifetime
    /\ \A s \in ran : s.want.id = r.want.id => s.run = r.run
=============================================================================
