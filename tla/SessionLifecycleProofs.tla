----------------------- MODULE SessionLifecycleProofs -----------------------
(***************************************************************************)
(* What SessionLifecycle keeps for every number of commits, commands,      *)
(* moves and crashes, every retry budget and every session found: the plan *)
(* a record binds is a plan for its base and readable on disk, a campaign  *)
(* spends no more invocations than its budget has slots, and a completion  *)
(* is recorded on the evidence it was validated on.                        *)
(*                                                                         *)
(* A command is a list of effects, so the inductive invariant says of      *)
(* every effect that is left what the moment it is performed needs.        *)
(***************************************************************************)
EXTENDS SessionLifecycle, FiniteSetTheorems, SequenceTheorems, WellFoundedInduction, TLAPS

-----------------------------------------------------------------------------
(* Shapes.                                                                 *)

IsSession(s) ==
  s = [status |-> s.status, base |-> s.base, plan |-> s.plan, hash |-> s.hash,
       attempts |-> s.attempts, ops |-> s.ops, issues |-> s.issues,
       actions |-> s.actions, delivered |-> s.delivered]

SessionOf(s) ==
  [status : {s.status}, base : {s.base}, plan : {s.plan}, hash : {s.hash},
   attempts : {s.attempts}, ops : {s.ops}, issues : {s.issues},
   actions : {s.actions}, delivered : {s.delivered}]

IsPlan(p) ==
  p = [kind |-> "plan", from |-> p.from, head |-> p.head, clean |-> p.clean,
       prev |-> p.prev, was |-> p.was]

IsList(t) == Len(t) \in Nat /\ t = [i \in 1..Len(t) |-> t[i]]

LEMMA ListIsSeq ==
  ASSUME NEW t, IsList(t) PROVE t \in Seq({t[i] : i \in 1..Len(t)})
BY DEF IsList

LEMMA SeqIsList ==
  ASSUME NEW S, NEW t \in Seq(S) PROVE IsList(t)
<1>1. Len(t) \in Nat /\ t \in [1..Len(t) -> S]
  BY LenProperties
<1> QED BY <1>1 DEF IsList

LEMMA TailOfList ==
  ASSUME NEW t, IsList(t), Len(t) > 1
  PROVE  /\ IsList(Tail(t)) /\ Len(Tail(t)) = Len(t) - 1
         /\ \A i \in 1..Len(Tail(t)) : Tail(t)[i] = t[i + 1]
<1>1. t \in Seq({t[i] : i \in 1..Len(t)}) /\ t # << >>
  BY ListIsSeq DEF IsList
<1>2. /\ Len(Tail(t)) = Len(t) - 1
      /\ \A i \in 1..Len(Tail(t)) : Tail(t)[i] = t[i + 1]
      /\ Tail(t) \in Seq({t[i] : i \in 1..Len(t)})
  BY <1>1, HeadTailProperties
<1> QED BY <1>2, SeqIsList

LEMMA ConcatOfLists ==
  ASSUME NEW t, NEW u, IsList(t), IsList(u)
  PROVE  /\ IsList(t \o u) /\ Len(t \o u) = Len(t) + Len(u)
         /\ \A i \in 1..Len(t \o u) :
              (t \o u)[i] = IF i <= Len(t) THEN t[i] ELSE u[i - Len(t)]
<1> DEFINE S == {t[i] : i \in 1..Len(t)} \cup {u[i] : i \in 1..Len(u)}
<1>1. t \in Seq(S) /\ u \in Seq(S)
  BY DEF IsList
<1>2. /\ t \o u \in Seq(S) /\ Len(t \o u) = Len(t) + Len(u)
      /\ \A i \in 1..Len(t) + Len(u) :
              (t \o u)[i] = IF i <= Len(t) THEN t[i] ELSE u[i - Len(t)]
  BY <1>1
<1> QED BY <1>2, SeqIsList

LEMMA Lists ==
  /\ IsList(<< >>)
  /\ \A a : IsList(<<a>>)
  /\ \A a, b : IsList(<<a, b>>)
  /\ \A a, b, c : IsList(<<a, b, c>>)
  /\ \A a, b, c, d : IsList(<<a, b, c, d>>)
BY DEF IsList

-----------------------------------------------------------------------------
(* Session records.                                                        *)

(* One field changes and the others stay.                                  *)
Changed(r, s, field, x) ==
  /\ IsSession(r)
  /\ r.status = IF field = "status" THEN x ELSE s.status
  /\ r.base = IF field = "base" THEN x ELSE s.base
  /\ r.plan = IF field = "plan" THEN x ELSE s.plan
  /\ r.hash = IF field = "hash" THEN x ELSE s.hash
  /\ r.attempts = IF field = "attempts" THEN x ELSE s.attempts
  /\ r.ops = IF field = "ops" THEN x ELSE s.ops
  /\ r.issues = IF field = "issues" THEN x ELSE s.issues
  /\ r.actions = IF field = "actions" THEN x ELSE s.actions
  /\ r.delivered = IF field = "delivered" THEN x ELSE s.delivered

LEMMA Edited ==
  ASSUME NEW s, NEW x, IsSession(s)
  PROVE  /\ Changed([s EXCEPT !.status = x], s, "status", x)
         /\ Changed([s EXCEPT !.base = x], s, "base", x)
         /\ Changed([s EXCEPT !.plan = x], s, "plan", x)
         /\ Changed([s EXCEPT !.hash = x], s, "hash", x)
         /\ Changed([s EXCEPT !.attempts = x], s, "attempts", x)
         /\ Changed([s EXCEPT !.ops = x], s, "ops", x)
         /\ Changed([s EXCEPT !.issues = x], s, "issues", x)
         /\ Changed([s EXCEPT !.actions = x], s, "actions", x)
<1>0. s \in SessionOf(s)
  BY DEF IsSession, SessionOf
<1>1. Changed([s EXCEPT !.status = x], s, "status", x)
  BY <1>0 DEF SessionOf, IsSession, Changed
<1>2. Changed([s EXCEPT !.base = x], s, "base", x)
  BY <1>0 DEF SessionOf, IsSession, Changed
<1>3. Changed([s EXCEPT !.plan = x], s, "plan", x)
  BY <1>0 DEF SessionOf, IsSession, Changed
<1>4. Changed([s EXCEPT !.hash = x], s, "hash", x)
  BY <1>0 DEF SessionOf, IsSession, Changed
<1>5. Changed([s EXCEPT !.attempts = x], s, "attempts", x)
  BY <1>0 DEF SessionOf, IsSession, Changed
<1>6. Changed([s EXCEPT !.ops = x], s, "ops", x)
  BY <1>0 DEF SessionOf, IsSession, Changed
<1>7. Changed([s EXCEPT !.issues = x], s, "issues", x)
  BY <1>0 DEF SessionOf, IsSession, Changed
<1>8. Changed([s EXCEPT !.actions = x], s, "actions", x)
  BY <1>0 DEF SessionOf, IsSession, Changed
<1> QED BY <1>1, <1>2, <1>3, <1>4, <1>5, <1>6, <1>7, <1>8

LEMMA RecordIs ==
  ASSUME NEW s, NEW more, IsSession(s)
  PROVE  Changed(Record(s, more), s, "hash", Over(more, s.hash))
BY Edited DEF Record

LEMMA EventIs ==
  ASSUME NEW s, NEW status, NEW issues, NEW id, IsSession(s)
  PROVE  LET r == Event(s, status, issues, id) IN
         /\ IsSession(r) /\ r.hash = s.hash
         /\ r.base = s.base /\ r.plan = s.plan /\ r.status = status
<1> DEFINE r1 == [s EXCEPT !.status = status]
           r2 == [r1 EXCEPT !.issues = issues]
           r3 == [r2 EXCEPT !.ops = s.ops \cup {id}]
<1>0. Event(s, status, issues, id) = r3
  BY DEF Event
<1>1. Changed(r1, s, "status", status)
  BY Edited
<1> HIDE DEF r1
<1>2. IsSession(r1)
  BY <1>1 DEF Changed
<1>3. Changed(r2, r1, "issues", issues)
  BY <1>2, Edited
<1> HIDE DEF r2
<1>4. IsSession(r2)
  BY <1>3 DEF Changed
<1>5. Changed(r3, r2, "ops", s.ops \cup {id})
  BY <1>4, Edited
<1> HIDE DEF r3
<1> QED BY <1>0, <1>1, <1>3, <1>5 DEF Changed

-----------------------------------------------------------------------------
(* The inductive invariant.                                                *)

OriginName == <<"origin", 0>>
PlanKinds  == {"plan", "objective", "reassessment"}

(* A record binds a plan for its base, under a name no other artifact of   *)
(* the session has; so does the candidate of a session in initial planning.*)
Bound(s) ==
  /\ IsSession(s)
  /\ Has(s, "plan") =>
       /\ IsPlan(s.hash.plan) /\ s.hash.plan.head = s.base
       /\ s.plan[1] \in PlanKinds
  /\ Has(s, "candidate") /\ ~Has(s, "plan") =>
       IsPlan(s.hash.candidate) /\ s.hash.candidate.head = s.base

(* What PlanRetained asks of the record on disk, of any record.            *)
Retained(s) ==
  \/ OnDisk(s.plan, s.hash.plan)
  \/ /\ Audit \in DOMAIN disk /\ s.hash.plan = disk[Audit].old
     /\ OnDisk(s.plan, disk[Audit].new)
     /\ OnDisk(<<"plan-invalid", 2>>, disk[Audit].old)

Saves(e)       == e.do \in {"save", "commit"}
Provides(e, s) == e.do \in {"put", "swap"} /\ e.name = s.plan /\ e.content = s.hash.plan

(* The plan of a record to be saved is on disk, or an effect before it     *)
(* writes it.                                                              *)
Backed(t, i) ==
  LET s == t[i].session IN
  Has(s, "plan") => Retained(s) \/ \E j \in 1..i - 1 : Provides(t[j], s)

Proper(t) ==
  /\ IsList(t)
  /\ \A i \in 1..Len(t) : Saves(t[i]) =>
       /\ Bound(t[i].session) /\ Backed(t, i)
       /\ t[i].do = "save" => t[i].session.status # "COMPLETED"

(* Only the repair of a lineage writes the audit and replaces a plan.      *)
Ordinary(e) ==
  /\ e.do = "put" => e.name # Audit
  /\ e.do = "swap" => e.name = OriginName /\ e.backup[1] = "origin-before"

RepairOf(a) ==
  /\ Has(sess, "plan") /\ a.old = sess.hash.plan
  /\ IsPlan(a.new) /\ OnDisk(sess.plan, a.old)

Repairing(t) ==
  \/ /\ Len(t) = 3
     /\ LET a == t[1].content IN
        t = FreshRepair(sess, a) /\ RepairOf(a)
  \/ /\ Len(t) = 2 /\ Audit \in DOMAIN disk
     /\ t = Tail(FreshRepair(sess, disk[Audit])) /\ RepairOf(disk[Audit])

(* A provider is asked for a slot that is recorded right before.           *)
Used    == {n \in Slots : <<"started", n>> \in DOMAIN disk}
Asks(e) == e.do = "call" /\ e.who = "provider"

Askable(t, i) ==
  /\ \A j \in (1..Len(t)) \ {i} : ~Asks(t[j])
  /\ IF i = 1 THEN seen.provider < Cardinality(Used)
     ELSE /\ \E n \in Slots \ Used : t[i - 1].name = <<"started", n>>
          /\ \A j \in 1..i - 2 : t[j].name[1] = "legacy"

(* A completion is recorded last, right after the snapshot was taken again *)
Completes(e) == e.do = "commit" /\ e.session.status = "COMPLETED"

Last(t, i) == i = Len(t) /\ (i > 1 => t[i - 1] = Check("snapshot"))

Shapes ==
  /\ disk = [n \in DOMAIN disk |-> disk[n]]
  /\ Audit \in DOMAIN disk => IsPlan(disk[Audit].new)
  /\ owner = [accepted |-> owner.accepted, stopped |-> owner.stopped, stops |-> owner.stops]
  /\ owner.stops \in Nat
  /\ seen = [planner |-> seen.planner, provider |-> seen.provider, refused |-> seen.refused]
  /\ seen.provider \in Nat

(* A command that a stop has reached has read an older stop.               *)
CommandInv ==
  /\ op = [kind |-> op.kind, todo |-> op.todo, repo |-> op.repo, project |-> op.project,
           owner |-> op.owner, stopped |-> op.stopped]
  /\ op.stopped \in BOOLEAN
  /\ op = Idle \/ Len(op.todo) > 0
  /\ op # Idle =>
       /\ op.owner.stops \in Nat /\ op.owner.stops <= owner.stops
       /\ op.stopped => op.owner.stops < owner.stops

(* What every effect of a list that is left to do needs of the moment.     *)
Safe(t) ==
  /\ Proper(t)
  /\ (\A i \in 1..Len(t) : Ordinary(t[i])) \/ Repairing(t)
  /\ \A i \in 1..Len(t) :
       /\ Asks(t[i]) => \A j \in 1..i - 1 : t[j].do = "put"
       /\ Asks(t[i]) /\ Has(sess, "campaign") => Askable(t, i)
       /\ Completes(t[i]) => Last(t, i)

Confirmed ==
  Len(op.todo) = 1 /\ Completes(op.todo[1]) => op.project.active /\ ~op.stopped

EffectsInv == Safe(op.todo) /\ Confirmed

SessionInv ==
  /\ Shapes /\ CommandInv /\ EffectsInv
  /\ Bound(sess) /\ PlanRetained
  /\ seen.provider <= Cardinality(Used)


-----------------------------------------------------------------------------
(* Lists of effects.                                                       *)

(* Effects of any command but an assessment, a completion or a repair.     *)
Plain(e) == Ordinary(e) /\ ~Asks(e) /\ ~Completes(e)

Fine(t) == Proper(t) /\ \A i \in 1..Len(t) : Plain(t[i])

(* A record that may be saved at once.                                     *)
Savable(s) == Bound(s) /\ (Has(s, "plan") => Retained(s))

(* u may follow t: what its records bind, t may have written.              *)
Follows(u, t) ==
  /\ IsList(u)
  /\ \A i \in 1..Len(u) : Saves(u[i]) =>
       /\ Bound(u[i].session)
       /\ u[i].do = "save" => u[i].session.status # "COMPLETED"
       /\ Backed(u, i) \/ \E j \in 1..Len(t) : Provides(t[j], u[i].session)

LEMMA FineIsSafe ==
  ASSUME NEW t, Fine(t) PROVE Safe(t)
BY DEF Fine, Plain, Safe

LEMMA ProperConcat ==
  ASSUME NEW t, NEW u, Proper(t), Follows(u, t) PROVE Proper(t \o u)
<1> DEFINE w == t \o u
<1>1. /\ IsList(w) /\ Len(w) = Len(t) + Len(u)
      /\ \A i \in 1..Len(w) : w[i] = IF i <= Len(t) THEN t[i] ELSE u[i - Len(t)]
  BY ConcatOfLists DEF Proper, Follows
<1>2. Len(t) \in Nat /\ Len(u) \in Nat
  BY DEF Proper, Follows, IsList
<1> HIDE DEF w
<1> SUFFICES ASSUME NEW i \in 1..Len(w), Saves(w[i])
             PROVE  /\ Bound(w[i].session) /\ Backed(w, i)
                    /\ w[i].do = "save" => w[i].session.status # "COMPLETED"
  BY <1>1 DEF Proper, w
<1>3. CASE i <= Len(t)
  <2>1. i \in 1..Len(t) /\ w[i] = t[i]
    BY <1>1, <1>2, <1>3
  <2>2. \A j \in 1..i - 1 : w[j] = t[j]
    BY <1>1, <1>2, <2>1
  <2> QED BY <2>1, <2>2 DEF Proper, Backed
<1>4. CASE ~(i <= Len(t))
  <2> DEFINE k == i - Len(t)
  <2>1. k \in 1..Len(u) /\ w[i] = u[k]
    BY <1>1, <1>2, <1>4
  <2>2. \A j \in 1..k - 1 : j + Len(t) \in 1..i - 1 /\ w[j + Len(t)] = u[j]
    BY <1>1, <1>2, <2>1
  <2>3. \A j \in 1..Len(t) : j \in 1..i - 1 /\ w[j] = t[j]
    BY <1>1, <1>2, <2>1
  <2> HIDE DEF k
  <2>4. /\ Bound(u[k].session)
        /\ u[k].do = "save" => u[k].session.status # "COMPLETED"
        /\ Backed(u, k) \/ \E j \in 1..Len(t) : Provides(t[j], u[k].session)
    BY <2>1 DEF Follows
  <2> QED BY <2>1, <2>2, <2>3, <2>4 DEF Backed
<1> QED BY <1>3, <1>4

LEMMA FineConcat ==
  ASSUME NEW t, NEW u, Fine(t), Follows(u, t), \A i \in 1..Len(u) : Plain(u[i])
  PROVE  Fine(t \o u)
<1>1. Proper(t \o u)
  BY ProperConcat DEF Fine
<1>2. /\ Len(t \o u) = Len(t) + Len(u)
      /\ \A i \in 1..Len(t \o u) :
           (t \o u)[i] = IF i <= Len(t) THEN t[i] ELSE u[i - Len(t)]
  BY ConcatOfLists DEF Fine, Proper, Follows
<1>3. Len(t) \in Nat /\ Len(u) \in Nat
  BY DEF Fine, Proper, Follows, IsList
<1> QED BY <1>1, <1>2, <1>3 DEF Fine

LEMMA FineEmpty == Fine(<< >>)
BY Lists DEF Fine, Proper

LEMMA FineSave ==
  ASSUME NEW r, Savable(r), r.status # "COMPLETED" PROVE Fine(<<Save(r)>>)
<1>1. /\ Len(<<Save(r)>>) = 1 /\ <<Save(r)>>[1] = Save(r)
      /\ Save(r).do = "save" /\ Save(r).session = r
  BY DEF Save
<1>2. Proper(<<Save(r)>>)
  BY <1>1, Lists DEF Proper, Savable, Backed
<1>3. Plain(Save(r))
  BY <1>1 DEF Plain, Ordinary, Asks, Completes
<1> QED BY <1>1, <1>2, <1>3 DEF Fine

(* An artifact is written, then the record that may name it.               *)
LEMMA FinePutSave ==
  ASSUME NEW r, NEW name, NEW content, Bound(r), r.status # "COMPLETED", name # Audit,
         Has(r, "plan") => Retained(r) \/ (name = r.plan /\ content = r.hash.plan)
  PROVE  Fine(<<Put(name, content), Save(r)>>)
<1> DEFINE t == <<Put(name, content), Save(r)>>
<1>1. /\ IsList(t) /\ Len(t) = 2
      /\ t[1].do = "put" /\ t[1].name = name /\ t[1].content = content
      /\ t[2].do = "save" /\ t[2].session = r
  BY Lists DEF Put, Save
<1> HIDE DEF t
<1>2. Backed(t, 2)
  BY <1>1 DEF Backed, Provides
<1>3. Proper(t)
  BY <1>1, <1>2 DEF Proper, Saves
<1>4. Plain(t[1]) /\ Plain(t[2])
  BY <1>1 DEF Plain, Ordinary, Asks, Completes
<1> QED BY <1>1, <1>3, <1>4 DEF Fine, t

LEMMA EventSavable ==
  ASSUME NEW s, NEW status, NEW issues, NEW id, Savable(s)
  PROVE  Savable(Event(s, status, issues, id)) /\ Event(s, status, issues, id).status = status
BY EventIs DEF Savable, Bound, Retained, Has

LEMMA ActionsSavable ==
  ASSUME NEW s, NEW actions, Savable(s)
  PROVE  Savable([s EXCEPT !.actions = actions]) /\ [s EXCEPT !.actions = actions].status = s.status
<1>1. Changed([s EXCEPT !.actions = actions], s, "actions", actions)
  BY Edited DEF Savable, Bound
<1> DEFINE r == [s EXCEPT !.actions = actions]
<1> HIDE DEF r
<1>2. Changed(r, s, "actions", actions)
  BY <1>1 DEF r
<1>3. Savable(r) /\ r.status = s.status
  BY <1>2 DEF Savable, Bound, Retained, Has, Changed
<1> QED BY <1>3 DEF r


-----------------------------------------------------------------------------
(* Marks, and the first plan.                                              *)

LEMMA MarkStaleFine ==
  ASSUME NEW s, NEW reason, NEW action, Savable(s) PROVE Fine(MarkStale(s, reason, action))
<1> DEFINE e == Event(s, "STALE", {reason[1]}, <<"stale", reason>>)
           r == [e EXCEPT !.actions = {action}]
<1>1. MarkStale(s, reason, action) = << >> \/ MarkStale(s, reason, action) = <<Save(r)>>
  BY DEF MarkStale, Refused
<1>2. Savable(e) /\ e.status = "STALE"
  BY EventSavable
<1> HIDE DEF e
<1>3. Savable(r) /\ r.status = "STALE"
  BY <1>2, ActionsSavable
<1> HIDE DEF r
<1> QED BY <1>1, <1>3, FineEmpty, FineSave

LEMMA MarkRetryFine ==
  ASSUME NEW s, Savable(s) PROVE Fine(MarkRetry(s))
<1> DEFINE e == Event(s, "RETRY_REQUIRED", {"provider"}, <<"retry", Hash(s, "evidence")>>)
<1>1. MarkRetry(s) = << >> \/ MarkRetry(s) = <<Save(e)>>
  BY DEF MarkRetry, Refused
<1>2. Savable(e) /\ e.status = "RETRY_REQUIRED"
  BY EventSavable
<1> HIDE DEF e
<1> QED BY <1>1, <1>2, FineEmpty, FineSave

(* The record CommitInitialPlan saves last.                                *)
Committed(s, plan) ==
  LET origin == [kind |-> "origin", plan |-> plan] IN
  [Event(Record(s, [plan |-> plan, candidate |-> plan, origin |-> origin]),
         "READY", {}, <<"start">>) EXCEPT !.plan = Initial]

LEMMA CommittedBound ==
  ASSUME NEW s, NEW plan, IsSession(s), IsPlan(plan), plan.head = s.base
  PROVE  /\ Bound(Committed(s, plan)) /\ Committed(s, plan).status = "READY"
         /\ Committed(s, plan).plan = Initial /\ Committed(s, plan).hash.plan = plan
<1> DEFINE more == [plan |-> plan, candidate |-> plan,
                    origin |-> [kind |-> "origin", plan |-> plan]]
           r == Record(s, more)
           e == Event(r, "READY", {}, <<"start">>)
           c == [e EXCEPT !.plan = Initial]
<1>0. Committed(s, plan) = c
  BY DEF Committed
<1>1. DOMAIN more = {"plan", "candidate", "origin"} /\ more["plan"] = plan
  OBVIOUS
<1>2. Changed(r, s, "hash", Over(more, s.hash))
  BY RecordIs
<1> HIDE DEF more
<1>3. "plan" \in DOMAIN Over(more, s.hash) /\ Over(more, s.hash)["plan"] = plan
  BY <1>1 DEF Over
<1> HIDE DEF r
<1>4. IsSession(r) /\ Has(r, "plan") /\ r.hash["plan"] = plan /\ r.base = s.base
  BY <1>2, <1>3 DEF Changed, Has
<1>5. IsSession(e) /\ e.hash = r.hash /\ e.base = s.base /\ e.status = "READY"
  BY <1>4, EventIs
<1> HIDE DEF e
<1>6. Changed(c, e, "plan", Initial)
  BY <1>5, Edited
<1> HIDE DEF c
<1>7. /\ IsSession(c) /\ Has(c, "plan") /\ c.hash["plan"] = plan /\ c.base = s.base
      /\ c.status = "READY" /\ c.plan = Initial
  BY <1>4, <1>5, <1>6 DEF Changed, Has
<1> QED BY <1>0, <1>7 DEF Bound, Initial, PlanKinds

LEMMA CommitInitialPlanFollows ==
  ASSUME NEW s, NEW plan, NEW t, IsSession(s), IsPlan(plan), plan.head = s.base
  PROVE  LET u == CommitInitialPlan(s, plan) IN
         Follows(u, t) /\ Proper(u) /\ \A i \in 1..Len(u) : Plain(u[i])
<1> DEFINE u == CommitInitialPlan(s, plan)
           c == Committed(s, plan)
<1>1. /\ IsList(u) /\ Len(u) = 3
      /\ u[1].do = "put" /\ u[1].name = Initial /\ u[1].content = plan
      /\ u[2].do = "put" /\ u[2].name = <<"origin", 0>>
      /\ u[3].do = "save" /\ u[3].session = c
  BY Lists DEF CommitInitialPlan, Committed, Put, Save
<1>2. Bound(c) /\ c.status = "READY" /\ c.plan = Initial /\ c.hash.plan = plan
  BY CommittedBound
<1> HIDE DEF u, c
<1>3. Backed(u, 3)
  BY <1>1, <1>2 DEF Backed, Provides
<1>4. Plain(u[1]) /\ Plain(u[2]) /\ Plain(u[3])
  BY <1>1 DEF Plain, Ordinary, Asks, Completes, Initial, Audit
<1>5. \A i \in 1..Len(u) : Saves(u[i]) => i = 3
  BY <1>1 DEF Saves
<1> QED BY <1>1, <1>2, <1>3, <1>4, <1>5 DEF Follows, Proper, u

LEMMA FinishInitialPlanFine ==
  ASSUME NEW s, NEW clean, Bound(s), ~Has(s, "plan"), s.status # "COMPLETED"
  PROVE  Fine(FinishInitialPlan(s, clean))
<1> DEFINE plan  == DirectorPlan(s.base, clean)
           tried == [s EXCEPT !.attempts = s.attempts + 1]
           more  == [candidate |-> plan]
           named == Record(tried, more)
           e     == Event(s, "BLOCKED", {"planning"}, <<"exhausted">>)
           t     == <<Save(tried), Call("planner"), Check("worktree"), Save(named)>>
           u     == CommitInitialPlan(named, plan)
<1>1. FinishInitialPlan(s, clean) = <<Save(e)>> \/ FinishInitialPlan(s, clean) = t \o u
  BY DEF FinishInitialPlan
<1>2. Fine(<<Save(e)>>)
  <2>1. Savable(s)
    BY DEF Savable
  <2>2. Savable(e) /\ e.status = "BLOCKED"
    BY <2>1, EventSavable
  <2> HIDE DEF e
  <2> QED BY <2>2, FineSave
<1>3. IsPlan(plan) /\ plan.head = s.base
  BY DEF DirectorPlan, Plan, IsPlan
<1>4. Changed(tried, s, "attempts", s.attempts + 1)
  BY Edited DEF Bound
<1> HIDE DEF tried
<1>5. /\ Bound(tried) /\ tried.status = s.status /\ tried.base = s.base
      /\ tried.hash = s.hash /\ IsSession(tried)
  BY <1>4 DEF Bound, Changed, Has
<1>6. Changed(named, tried, "hash", Over(more, tried.hash))
  BY <1>5, RecordIs
<1> HIDE DEF plan
<1>0. DOMAIN more = {"candidate"} /\ more["candidate"] = plan
  OBVIOUS
<1> HIDE DEF more
<1>7. /\ DOMAIN Over(more, s.hash) = {"candidate"} \cup DOMAIN s.hash
      /\ Over(more, s.hash)["candidate"] = plan
  BY <1>0 DEF Over
<1> HIDE DEF named
<1>8. /\ Bound(named) /\ named.status = s.status /\ named.base = s.base
      /\ ~Has(named, "plan") /\ ~Has(tried, "plan") /\ IsSession(named)
  BY <1>3, <1>5, <1>6, <1>7 DEF Changed, Has, Bound
<1>9. /\ IsList(t) /\ Len(t) = 4
      /\ t[1].do = "save" /\ t[1].session = tried
      /\ t[2].do = "call" /\ t[2].who = "planner"
      /\ t[3].do = "check"
      /\ t[4].do = "save" /\ t[4].session = named
  BY Lists DEF Call, Check, Save
<1> HIDE DEF t
<1>10. Fine(t)
  <2>1. Plain(t[1]) /\ Plain(t[2]) /\ Plain(t[3]) /\ Plain(t[4])
    BY <1>9 DEF Plain, Ordinary, Asks, Completes
  <2>2. \A i \in 1..4 : Saves(t[i]) => i \in {1, 4}
    BY <1>9 DEF Saves
  <2>3. Backed(t, 1) /\ Backed(t, 4)
    BY <1>8, <1>9 DEF Backed
  <2> QED BY <1>5, <1>8, <1>9, <2>1, <2>2, <2>3 DEF Fine, Proper
<1>11. Follows(u, t) /\ \A i \in 1..Len(u) : Plain(u[i])
  BY <1>3, <1>8, CommitInitialPlanFollows
<1> HIDE DEF u
<1> QED BY <1>1, <1>2, <1>10, <1>11, FineConcat


LEMMA FineThenFine ==
  ASSUME NEW t, NEW u, Fine(t), Fine(u) PROVE Fine(t \o u)
<1>1. Follows(u, t) /\ \A i \in 1..Len(u) : Plain(u[i])
  BY DEF Fine, Proper, Follows
<1> QED BY <1>1, FineConcat

LEMMA FineCheck == \A what : Fine(<<Check(what)>>)
<1> SUFFICES ASSUME NEW what PROVE Fine(<<Check(what)>>)
  OBVIOUS
<1> DEFINE t == <<Check(what)>>
<1>1. IsList(t) /\ Len(t) = 1 /\ t[1].do = "check"
  BY Lists DEF Check
<1> HIDE DEF t
<1>2. Fine(t)
  BY <1>1 DEF Fine, Proper, Saves, Plain, Ordinary, Asks, Completes
<1> QED BY <1>2 DEF t

LEMMA RecoverInitialPlanFine ==
  ASSUME NEW s, NEW clean, Bound(s), ~Has(s, "plan"), s.status # "COMPLETED"
  PROVE  Fine(RecoverInitialPlan(s, clean))
<1>1. CASE Has(s, "candidate") /\ Initial \in DOMAIN disk
  <2>1. CASE disk[Initial] = s.hash.candidate
    <3> DEFINE t == <<Check("worktree")>>
               u == CommitInitialPlan(s, disk[Initial])
    <3>1. RecoverInitialPlan(s, clean) = t \o u
      BY <1>1, <2>1 DEF RecoverInitialPlan
    <3>2. IsPlan(disk[Initial]) /\ disk[Initial].head = s.base
      BY <1>1, <2>1 DEF Bound
    <3>3. Follows(u, t) /\ \A i \in 1..Len(u) : Plain(u[i])
      BY <3>2, CommitInitialPlanFollows DEF Bound
    <3>4. Fine(t)
      BY FineCheck
    <3> HIDE DEF t, u
    <3> QED BY <3>1, <3>3, <3>4, FineConcat
  <2> QED BY <1>1, <2>1, FineEmpty DEF RecoverInitialPlan, Refused
<1> QED BY <1>1, FinishInitialPlanFine DEF RecoverInitialPlan

LEMMA ResumePlanningFine ==
  ASSUME NEW s, Savable(s), s.status # "COMPLETED" PROVE Fine(ResumePlanning(s))
<1>1. CASE \/ s.ops # {} \/ ~(DOMAIN s.hash \subseteq {"worktree", "candidate"})
           \/ project.head # s.base
  BY <1>1, MarkStaleFine DEF ResumePlanning
<1>2. CASE ~(\/ s.ops # {} \/ ~(DOMAIN s.hash \subseteq {"worktree", "candidate"})
             \/ project.head # s.base)
  <2>1. ~Has(s, "plan") /\ Bound(s)
    BY <1>2 DEF Has, Savable
  <2> QED BY <1>2, <2>1, MarkStaleFine, RecoverInitialPlanFine DEF ResumePlanning
<1> QED BY <1>1, <1>2

LEMMA NewSessionBound ==
  ASSUME NEW base
  PROVE  /\ Bound(NewSession(base)) /\ ~Has(NewSession(base), "plan")
         /\ NewSession(base).status = "PLANNING"
BY DEF NewSession, Bound, IsSession, Has

LEMMA StartFine == Fine(StartEffects)
<1> DEFINE s    == NewSession(repo.head)
           snap == [kind |-> "worktree", tree |-> repo.tree]
           more == [worktree |-> snap]
           r    == Record(s, more)
           name == <<"worktree", 0>>
<1>1. StartEffects = <<Save(s)>> \o FinishInitialPlan(s, TRUE)
      \/ StartEffects = <<Put(name, snap), Save(r)>> \o FinishInitialPlan(r, FALSE)
  BY DEF StartEffects
<1>2. Bound(s) /\ ~Has(s, "plan") /\ ~Has(s, "candidate") /\ s.status = "PLANNING"
  BY NewSessionBound DEF NewSession, Has
<1>3. name # Audit
  BY DEF Audit
<1> HIDE DEF s, snap, name
<1>4. DOMAIN more = {"worktree"}
  OBVIOUS
<1> HIDE DEF more
<1>5. Changed(r, s, "hash", Over(more, s.hash))
  BY <1>2, RecordIs DEF Bound
<1> HIDE DEF r
<1>6. DOMAIN Over(more, s.hash) = {"worktree"} \cup DOMAIN s.hash
  BY <1>4 DEF Over
<1>7. IsSession(r) /\ ~Has(r, "plan") /\ ~Has(r, "candidate") /\ r.status = "PLANNING"
  BY <1>2, <1>5, <1>6 DEF Changed, Has
<1>8. Bound(r)
  BY <1>7 DEF Bound
<1>9. Fine(<<Save(s)>>) /\ Fine(<<Put(name, snap), Save(r)>>)
  BY <1>2, <1>3, <1>7, <1>8, FineSave, FinePutSave DEF Savable
<1>10. Fine(FinishInitialPlan(s, TRUE)) /\ Fine(FinishInitialPlan(r, FALSE))
  BY <1>2, <1>7, <1>8, FinishInitialPlanFine
<1> QED BY <1>1, <1>9, <1>10, FineThenFine


-----------------------------------------------------------------------------
(* Resumption.                                                             *)

(* A record on another base and with another plan.                         *)
Rebased(c, e, base, plan) ==
  /\ IsSession(c) /\ c.base = base /\ c.plan = plan
  /\ c.hash = e.hash /\ c.status = e.status

LEMMA RebasedIs ==
  ASSUME NEW e, NEW base, NEW plan, IsSession(e)
  PROVE  Rebased([e EXCEPT !.base = base, !.plan = plan], e, base, plan)
<1> DEFINE c1 == [e EXCEPT !.base = base]
           c2 == [c1 EXCEPT !.plan = plan]
<1>1. Changed(c1, e, "base", base)
  BY Edited
<1> HIDE DEF c1
<1>2. IsSession(c1)
  BY <1>1 DEF Changed
<1>3. Changed(c2, c1, "plan", plan)
  BY <1>2, Edited
<1>4. [e EXCEPT !.base = base, !.plan = plan] = c2
  BY DEF c1
<1> HIDE DEF c2
<1> QED BY <1>1, <1>3, <1>4 DEF Changed, Rebased

(* A record that was given a plan.                                         *)
LEMMA PlannedIs ==
  ASSUME NEW s, NEW more, NEW status, NEW issues, NEW id, IsSession(s),
         "plan" \in DOMAIN more
  PROVE  LET e == Event(Record(s, more), status, issues, id) IN
         /\ IsSession(e) /\ Has(e, "plan") /\ e.hash["plan"] = more["plan"]
         /\ e.base = s.base /\ e.plan = s.plan /\ e.status = status
<1> DEFINE r == Record(s, more)
           e == Event(r, status, issues, id)
<1>1. Changed(r, s, "hash", Over(more, s.hash))
  BY RecordIs
<1> HIDE DEF r
<1>2. "plan" \in DOMAIN Over(more, s.hash) /\ Over(more, s.hash)["plan"] = more["plan"]
  BY DEF Over
<1>3. IsSession(r) /\ Has(r, "plan") /\ r.hash["plan"] = more["plan"]
  BY <1>1, <1>2 DEF Changed, Has
<1>4. IsSession(e) /\ e.hash = r.hash /\ e.base = r.base /\ e.plan = r.plan /\ e.status = status
  BY <1>3, EventIs
<1> HIDE DEF e
<1>5. /\ IsSession(e) /\ Has(e, "plan") /\ e.hash["plan"] = more["plan"]
      /\ e.base = s.base /\ e.plan = s.plan /\ e.status = status
  BY <1>1, <1>3, <1>4 DEF Changed, Has
<1> QED BY <1>5 DEF e, r

LEMMA GivenPlanIsBound ==
  ASSUME NEW c, IsSession(c), Has(c, "plan"), IsPlan(c.hash.plan),
         c.hash.plan.head = c.base, c.plan[1] \in PlanKinds
  PROVE  Bound(c)
BY DEF Bound

LEMMA ReconcileDeliveredFine ==
  ASSUME NEW s, IsSession(s) PROVE Fine(ReconcileDelivered(s))
<1> DEFINE old  == disk[s.plan]
           plan == Plan("delivered", repo.head, old.clean, s.plan, old)
           name == PlanAt(NextVersion)
           more == [plan |-> plan, predecessor |-> old,
                    delivery |-> [kind |-> "delivery", to |-> repo.head]]
           e    == Event(Record(s, more), "READY", {}, <<"delivered", s.base>>)
           c    == [e EXCEPT !.base = repo.head, !.plan = name]
<1>1. ReconcileDelivered(s) = <<Put(name, plan), Save(c)>>
  BY DEF ReconcileDelivered
<1>2. IsPlan(plan) /\ plan.head = repo.head
  BY DEF Plan, IsPlan
<1>3. name[1] \in PlanKinds /\ name # Audit
  BY DEF PlanAt, PlanKinds, Audit
<1>4. "plan" \in DOMAIN more /\ more["plan"] = plan
  OBVIOUS
<1> HIDE DEF name, plan, more
<1>5. IsSession(e) /\ Has(e, "plan") /\ e.hash["plan"] = plan /\ e.status = "READY"
  BY <1>4, PlannedIs
<1> HIDE DEF e
<1>6. Rebased(c, e, repo.head, name)
  BY <1>5, RebasedIs
<1> HIDE DEF c
<1>7. Has(c, "plan") /\ c.hash.plan = plan
  BY <1>5, <1>6 DEF Has, Rebased
<1>8. Bound(c)
  BY <1>2, <1>3, <1>6, <1>7, GivenPlanIsBound DEF Rebased
<1> QED BY <1>1, <1>3, <1>5, <1>6, <1>7, <1>8, FinePutSave DEF Rebased

LEMMA ResumeReadyFine ==
  ASSUME NEW s, NEW execute, Savable(s) PROVE Fine(ResumeReady(s, execute))
<1> DEFINE e == Event(s, "EXECUTING", {}, <<"execute">>)
<1>1. \/ ResumeReady(s, execute) = << >> \/ ResumeReady(s, execute) = MarkRetry(s)
      \/ ResumeReady(s, execute) = <<Save(e)>>
  BY DEF ResumeReady, Refused
<1>2. Savable(e) /\ e.status = "EXECUTING"
  BY EventSavable
<1> HIDE DEF e
<1> QED BY <1>1, <1>2, FineEmpty, FineSave, MarkRetryFine

(* Evidence added to a record that keeps its plan.                         *)
LEMMA KeptSavable ==
  ASSUME NEW s, NEW more, Savable(s), {"plan", "candidate"} \cap DOMAIN more = {}
  PROVE  Savable(Record(s, more)) /\ Record(s, more).status = s.status
<1> DEFINE r == Record(s, more)
<1>1. Changed(r, s, "hash", Over(more, s.hash))
  BY RecordIs DEF Savable, Bound
<1> HIDE DEF r
<1>2. /\ "plan" \in DOMAIN Over(more, s.hash) <=> Has(s, "plan")
      /\ "candidate" \in DOMAIN Over(more, s.hash) <=> Has(s, "candidate")
      /\ Has(s, "plan") => Over(more, s.hash)["plan"] = s.hash["plan"]
      /\ Has(s, "candidate") => Over(more, s.hash)["candidate"] = s.hash["candidate"]
  BY DEF Over, Has
<1>3. /\ IsSession(r) /\ r.base = s.base /\ r.plan = s.plan /\ r.status = s.status
      /\ Has(r, "plan") <=> Has(s, "plan")
      /\ Has(r, "candidate") <=> Has(s, "candidate")
      /\ Has(s, "plan") => r.hash.plan = s.hash.plan
      /\ Has(s, "candidate") => r.hash.candidate = s.hash.candidate
  BY <1>1, <1>2 DEF Changed, Has
<1>4. Savable(r)
  BY <1>3 DEF Savable, Bound, Retained
<1> QED BY <1>3, <1>4 DEF r

LEMMA ResumeFine ==
  ASSUME NEW s, NEW execute, Savable(s) PROVE Fine(ResumeEffects(s, execute))
<1> DEFINE more == [predecessor |-> disk[s.plan].was]
           e == Event(Record(s, more), "READY", {}, <<"binding-repair">>)
           c == [e EXCEPT !.actions = {}]
<1>1. \/ \E reason, action : ResumeEffects(s, execute) = MarkStale(s, reason, action)
      \/ ResumeEffects(s, execute) = ReconcileDelivered(s)
      \/ ResumeEffects(s, execute) = ResumePlanning(s) /\ s.status = "PLANNING"
      \/ ResumeEffects(s, execute) = << >>
      \/ ResumeEffects(s, execute) = ResumeReady(s, execute)
      \/ ResumeEffects(s, execute) = <<Save(c)>> /\ RepairBinding(s)
  BY DEF ResumeEffects, Drifted, Refused
<1>2. ASSUME RepairBinding(s) PROVE Fine(<<Save(c)>>)
  <2>1. {"plan", "candidate"} \cap DOMAIN more = {}
    OBVIOUS
  <2> HIDE DEF more
  <2>3. Savable(Record(s, more))
    BY <2>1, KeptSavable
  <2>4. Savable(e) /\ e.status = "READY"
    BY <2>3, EventSavable
  <2> HIDE DEF e
  <2>5. Savable(c) /\ c.status = "READY"
    BY <2>4, ActionsSavable
  <2> HIDE DEF c
  <2> QED BY <2>5, FineSave
<1> HIDE DEF c
<1> QED BY <1>1, <1>2, MarkStaleFine, ReconcileDeliveredFine, ResumePlanningFine, FineEmpty,
           ResumeReadyFine DEF Savable, Bound


-----------------------------------------------------------------------------
(* Reconciliations of the base.                                            *)

LEMMA RebasedActions ==
  ASSUME NEW e, NEW base, NEW plan, NEW actions, IsSession(e)
  PROVE  /\ Rebased([e EXCEPT !.base = base, !.plan = plan, !.actions = actions], e, base, plan)
         /\ Rebased([e EXCEPT !.base = base, !.actions = actions], e, base, e.plan)
<1> DEFINE c1 == [e EXCEPT !.base = base, !.plan = plan]
           c2 == [c1 EXCEPT !.actions = actions]
           d1 == [e EXCEPT !.base = base]
           d2 == [d1 EXCEPT !.actions = actions]
<1>1. /\ [e EXCEPT !.base = base, !.plan = plan, !.actions = actions] = c2
      /\ [e EXCEPT !.base = base, !.actions = actions] = d2
  OBVIOUS
<1>2. Rebased(c1, e, base, plan) /\ Changed(d1, e, "base", base)
  BY RebasedIs, Edited
<1> HIDE DEF c1, d1
<1>3. IsSession(c1) /\ IsSession(d1)
  BY <1>2 DEF Rebased, Changed
<1>4. Changed(c2, c1, "actions", actions) /\ Changed(d2, d1, "actions", actions)
  BY <1>3, Edited
<1> HIDE DEF c2, d2
<1> QED BY <1>1, <1>2, <1>4 DEF Rebased, Changed

Rehashed(e, s, hash, status) ==
  IsSession(e) /\ e.hash = hash /\ e.plan = s.plan /\ e.status = status

LEMMA ReplacedHash ==
  ASSUME NEW s, NEW hash, NEW status, NEW issues, NEW id, IsSession(s)
  PROVE  Rehashed(Event([s EXCEPT !.hash = hash], status, issues, id), s, hash, status)
<1> DEFINE r == [s EXCEPT !.hash = hash]
           e == Event(r, status, issues, id)
<1>1. Changed(r, s, "hash", hash)
  BY Edited
<1> HIDE DEF r
<1>2. IsSession(e) /\ e.hash = r.hash /\ e.plan = r.plan /\ e.status = status
  BY <1>1, EventIs DEF Changed
<1> HIDE DEF e
<1>3. Rehashed(e, s, hash, status)
  BY <1>1, <1>2 DEF Changed, Rehashed
<1> QED BY <1>3 DEF e, r

LEMMA CanonicalFine ==
  ASSUME NEW s, IsSession(s) PROVE Fine(ReconcileCanonical(s))
<1> DEFINE hash == [canonical |-> [kind |-> "head", head |-> repo.head]]
           e == Event([s EXCEPT !.hash = hash], "READY", {}, <<"canonical", repo.head>>)
           c == [e EXCEPT !.base = repo.head, !.plan = NoName, !.actions = {}]
<1>1. ReconcileCanonical(s) = << >> \/ ReconcileCanonical(s) = <<Save(c)>>
  BY DEF ReconcileCanonical, Rebase, Refused
<1>2. "plan" \notin DOMAIN hash /\ "candidate" \notin DOMAIN hash
  OBVIOUS
<1> HIDE DEF hash
<1>3a. Rehashed(e, s, hash, "READY")
  BY ReplacedHash
<1> HIDE DEF e
<1>3. IsSession(e) /\ e.hash = hash /\ e.status = "READY"
  BY <1>3a DEF Rehashed
<1>4. Rebased(c, e, repo.head, NoName)
  BY <1>3, RebasedActions
<1> HIDE DEF c
<1>5. Savable(c) /\ c.status = "READY"
  BY <1>2, <1>3, <1>4 DEF Rebased, Savable, Bound, Has
<1> QED BY <1>1, <1>5, FineSave, FineEmpty

LEMMA ExternalResultFine ==
  ASSUME NEW s, IsSession(s) PROVE Fine(ReconcileExternalResult(s))
<1> DEFINE hash == [result |-> [kind |-> "head", head |-> repo.head]]
           e == Event([s EXCEPT !.hash = hash], "READY", {}, <<"result", repo.head>>)
           c == [e EXCEPT !.base = repo.head, !.actions = {}]
<1>1. ReconcileExternalResult(s) = << >> \/ ReconcileExternalResult(s) = <<Save(c)>>
  BY DEF ReconcileExternalResult, Refused
<1>2. "plan" \notin DOMAIN hash /\ "candidate" \notin DOMAIN hash
  OBVIOUS
<1> HIDE DEF hash
<1>3a. Rehashed(e, s, hash, "READY")
  BY ReplacedHash
<1> HIDE DEF e
<1>3. IsSession(e) /\ e.hash = hash /\ e.status = "READY"
  BY <1>3a DEF Rehashed
<1>4. Rebased(c, e, repo.head, e.plan)
  BY <1>3, RebasedActions
<1> HIDE DEF c
<1>5. Savable(c) /\ c.status = "READY"
  BY <1>2, <1>3, <1>4 DEF Rebased, Savable, Bound, Has
<1> QED BY <1>1, <1>5, FineSave, FineEmpty

LEMMA ReplaceOriginFine ==
  ASSUME NEW s, NEW origin, NEW from PROVE Fine(ReplaceOrigin(s, origin, from))
<1> DEFINE name == <<"origin", 0>>
           backup == <<"origin-before", 10 * from + repo.head>>
           t == <<Put(name, origin)>>
           u == <<Swap(name, origin, backup)>>
<1>1. \/ ReplaceOrigin(s, origin, from) = << >> \/ ReplaceOrigin(s, origin, from) = t
      \/ ReplaceOrigin(s, origin, from) = u
  BY DEF ReplaceOrigin
<1>2. name = OriginName /\ name # Audit /\ backup[1] = "origin-before"
  BY DEF OriginName, Audit
<1> HIDE DEF name, backup
<1>3. /\ IsList(t) /\ Len(t) = 1 /\ t[1].do = "put" /\ t[1].name = name
      /\ IsList(u) /\ Len(u) = 1 /\ u[1].do = "swap" /\ u[1].name = name /\ u[1].backup = backup
  BY Lists DEF Put, Swap
<1> HIDE DEF t, u
<1>4. Fine(t) /\ Fine(u)
  BY <1>2, <1>3 DEF Fine, Proper, Saves, Plain, Ordinary, Asks, Completes
<1> QED BY <1>1, <1>4, FineEmpty

LEMMA ExternalAdvanceFine ==
  ASSUME NEW s, NEW from, IsSession(s) PROVE Fine(ReconcileExternalAdvance(s, from))
<1> DEFINE plan   == DirectorPlan(repo.head, TRUE)
           origin == [kind |-> "origin", plan |-> plan]
           name   == <<"reassessment", repo.head>>
           hash   == [external |-> [kind |-> "head", head |-> repo.head],
                      plan |-> plan, origin |-> origin]
           e == Event([s EXCEPT !.hash = hash], "READY", {}, <<"external", from, repo.head>>)
           c == [e EXCEPT !.base = repo.head, !.plan = name, !.actions = {}]
           p == <<Put(name, plan)>>
           o == ReplaceOrigin(s, origin, from)
           t == p \o o
<1>1. \/ ReconcileExternalAdvance(s, from) = << >>
      \/ ReconcileExternalAdvance(s, from) = t \o << >>
      \/ ReconcileExternalAdvance(s, from) = t \o <<Save(c)>>
  BY DEF ReconcileExternalAdvance, Refused
<1>2. IsPlan(plan) /\ plan.head = repo.head
  BY DEF DirectorPlan, Plan, IsPlan
<1>3. name[1] \in PlanKinds /\ name # Audit
  BY DEF PlanKinds, Audit
<1>4. "plan" \in DOMAIN hash /\ hash["plan"] = plan
  OBVIOUS
<1>5. /\ IsList(p) /\ Len(p) = 1
      /\ p[1].do = "put" /\ p[1].name = name /\ p[1].content = plan
  BY Lists DEF Put
<1>6. Fine(o)
  BY ReplaceOriginFine
<1> HIDE DEF hash, plan, name, p, o
<1>7a. Rehashed(e, s, hash, "READY")
  BY ReplacedHash
<1> HIDE DEF e
<1>7. IsSession(e) /\ e.hash = hash /\ e.status = "READY"
  BY <1>7a DEF Rehashed
<1>8. Rebased(c, e, repo.head, name)
  BY <1>7, RebasedActions
<1> HIDE DEF c
<1>9. /\ Bound(c) /\ c.status = "READY" /\ c.plan = name /\ c.hash.plan = plan
  <2>1. /\ IsSession(c) /\ Has(c, "plan") /\ c.hash["plan"] = plan /\ c.base = repo.head
        /\ c.plan = name /\ c.status = "READY"
    BY <1>4, <1>7, <1>8 DEF Has, Rebased
  <2> QED BY <1>2, <1>3, <2>1, GivenPlanIsBound
<1>10. Fine(p)
  BY <1>3, <1>5 DEF Fine, Proper, Saves, Plain, Ordinary, Asks, Completes
<1>11. Fine(t)
  BY <1>6, <1>10, FineThenFine
<1>12. Len(t) >= 1 /\ t[1] = p[1]
  <2>1. IsList(o) /\ Len(o) \in Nat
    BY <1>6 DEF Fine, Proper, IsList
  <2>2. /\ Len(t) = Len(p) + Len(o)
        /\ \A i \in 1..Len(t) : t[i] = IF i <= Len(p) THEN p[i] ELSE o[i - Len(p)]
    BY <1>5, <2>1, ConcatOfLists
  <2> QED BY <1>5, <2>1, <2>2
<1> HIDE DEF t
<1>13. Follows(<<Save(c)>>, t) /\ Plain(Save(c))
  <2> DEFINE u == <<Save(c)>>
  <2>1. IsList(u) /\ Len(u) = 1 /\ u[1].do = "save" /\ u[1].session = c /\ u[1] = Save(c)
    BY Lists DEF Save
  <2> HIDE DEF u
  <2>2. Len(t) \in Nat
    BY <1>11 DEF Fine, Proper, IsList
  <2>3. Provides(t[1], c) /\ 1 \in 1..Len(t)
    BY <1>5, <1>9, <1>12, <2>2 DEF Provides
  <2>4. Follows(u, t) /\ Plain(u[1])
    BY <1>9, <2>1, <2>3 DEF Follows, Plain, Ordinary, Asks, Completes
  <2> QED BY <2>1, <2>4 DEF u
<1>14. Fine(t \o <<Save(c)>>)
  <2>1. \A i \in 1..Len(<<Save(c)>>) : Plain(<<Save(c)>>[i])
    BY <1>13
  <2> QED BY <1>11, <1>13, <2>1, FineConcat
<1> QED BY <1>1, <1>11, <1>14, FineEmpty, FineThenFine


-----------------------------------------------------------------------------
(* Repair, binding, completion, audit, campaign.                           *)

(* A list a command may begin with.                                        *)
Startable(t) == Safe(t) /\ (Len(t) = 1 => ~Completes(t[1]))

LEMMA FineIsStartable ==
  ASSUME NEW t, Fine(t) PROVE Startable(t)
<1>1. Len(t) = 1 => ~Completes(t[1])
  BY DEF Fine, Plain
<1> QED BY <1>1, FineIsSafe DEF Startable

LEMMA RepairedIs ==
  ASSUME NEW s, NEW a, IsSession(s)
  PROVE  /\ IsSession(Repaired(s, a)) /\ Has(Repaired(s, a), "plan")
         /\ Repaired(s, a).hash["plan"] = a.new /\ Repaired(s, a).base = s.base
         /\ Repaired(s, a).plan = s.plan /\ Repaired(s, a).status = "BLOCKED"
<1> DEFINE more == [plan |-> a.new, predecessor |-> a.new.was, repair |-> a]
           e == Event(Record(s, more), "BLOCKED", {}, <<"repair">>)
           r == [e EXCEPT !.actions = {}]
<1>0. Repaired(s, a) = r
  BY DEF Repaired
<1>1. "plan" \in DOMAIN more /\ more["plan"] = a.new
  OBVIOUS
<1> HIDE DEF more
<1>2. /\ IsSession(e) /\ Has(e, "plan") /\ e.hash["plan"] = a.new
      /\ e.base = s.base /\ e.plan = s.plan /\ e.status = "BLOCKED"
  BY <1>1, PlannedIs
<1> HIDE DEF e
<1>3. Changed(r, e, "actions", {})
  BY <1>2, Edited
<1> HIDE DEF r
<1>4. /\ IsSession(r) /\ Has(r, "plan") /\ r.hash["plan"] = a.new
      /\ r.base = s.base /\ r.plan = s.plan /\ r.status = "BLOCKED"
  BY <1>2, <1>3 DEF Changed, Has
<1> QED BY <1>0, <1>4

LEMMA RepairedBound ==
  ASSUME NEW s, NEW a, Bound(s), Has(s, "plan"), IsPlan(a.new), a.new.head = s.base
  PROVE  LET r == Repaired(s, a) IN
         /\ Bound(r) /\ r.status = "BLOCKED" /\ Has(r, "plan")
         /\ r.plan = s.plan /\ r.hash.plan = a.new
<1> DEFINE r == Repaired(s, a)
<1>1. /\ IsSession(r) /\ Has(r, "plan") /\ r.hash["plan"] = a.new
      /\ r.base = s.base /\ r.plan = s.plan /\ r.status = "BLOCKED"
  BY RepairedIs DEF Bound
<1> HIDE DEF r
<1>2. s.plan[1] \in PlanKinds
  BY DEF Bound
<1>3. Bound(r)
  BY <1>1, <1>2, GivenPlanIsBound
<1> QED BY <1>1, <1>3 DEF r

SamePlan(q, p) == IsPlan(q) /\ q.head = p.head

LEMMA EditedPlan ==
  ASSUME NEW p, NEW x, IsPlan(p)
  PROVE  /\ SamePlan([p EXCEPT !.prev = x], p)
         /\ SamePlan([p EXCEPT !.was = x], p)
<1>1. p \in [kind : {"plan"}, from : {p.from}, head : {p.head}, clean : {p.clean},
            prev : {p.prev}, was : {p.was}]
  BY DEF IsPlan
<1> QED BY <1>1 DEF IsPlan, SamePlan

LEMMA FreshRepairStartable ==
  ASSUME NEW a, Bound(sess), RepairOf(a), a.new.head = sess.base
  PROVE  Startable(FreshRepair(sess, a))
<1> DEFINE t == FreshRepair(sess, a)
           r == Repaired(sess, a)
<1>1. /\ IsList(t) /\ Len(t) = 3
      /\ t[1].do = "put" /\ t[1].name = Audit /\ t[1].content = a
      /\ t[2].do = "swap" /\ t[2].name = sess.plan /\ t[2].content = a.new
      /\ t[3].do = "save" /\ t[3].session = r
  BY Lists DEF FreshRepair, Put, Swap, Save
<1>2. /\ Bound(r) /\ r.status = "BLOCKED" /\ Has(r, "plan")
      /\ r.plan = sess.plan /\ r.hash.plan = a.new
  BY RepairedBound DEF RepairOf
<1>3. Repairing(t)
  BY <1>1 DEF Repairing
<1> HIDE DEF t, r
<1>4. Backed(t, 3)
  BY <1>1, <1>2 DEF Backed, Provides
<1>5. Proper(t)
  BY <1>1, <1>2, <1>4 DEF Proper, Saves
<1>6. \A i \in 1..Len(t) : ~Asks(t[i]) /\ ~Completes(t[i])
  BY <1>1 DEF Asks, Completes
<1>7. Startable(t)
  BY <1>1, <1>3, <1>5, <1>6 DEF Startable, Safe
<1> QED BY <1>7 DEF t

LEMMA RepairStartable ==
  ASSUME Shapes, Savable(sess) PROVE Startable(RepairEffects(sess))
<1> DEFINE current == disk[sess.plan]
           new     == [current EXCEPT !.prev = Initial, !.was = sess.hash.original]
           audit   == [kind |-> "repair", old |-> current, time |-> spent.commands, new |-> new]
           r       == Repaired(sess, disk[Audit])
<1>1. \/ RepairEffects(sess) = << >>
      \/ /\ RepairEffects(sess) = <<Save(r)>>
         /\ sess.plan \in DOMAIN disk /\ Has(sess, "plan") /\ current.head = sess.base
         /\ Audit \in DOMAIN disk /\ current = disk[Audit].new
      \/ /\ RepairEffects(sess) = FreshRepair(sess, audit)
         /\ sess.plan \in DOMAIN disk /\ Has(sess, "plan") /\ current.head = sess.base
         /\ current = sess.hash.plan
  BY DEF RepairEffects, Refused
<1>2. CASE RepairEffects(sess) = << >>
  BY <1>2, FineEmpty, FineIsStartable
<1>3. CASE /\ RepairEffects(sess) = <<Save(r)>>
           /\ sess.plan \in DOMAIN disk /\ Has(sess, "plan") /\ current.head = sess.base
           /\ Audit \in DOMAIN disk /\ current = disk[Audit].new
  <2>1. /\ Bound(r) /\ r.status = "BLOCKED" /\ Has(r, "plan")
        /\ r.plan = sess.plan /\ r.hash.plan = disk[Audit].new
    BY <1>3, RepairedBound DEF Shapes, Savable
  <2> HIDE DEF r
  <2>2. Savable(r)
    BY <1>3, <2>1 DEF Savable, Retained, OnDisk
  <2> QED BY <1>3, <2>1, <2>2, FineSave, FineIsStartable
<1>4. CASE /\ RepairEffects(sess) = FreshRepair(sess, audit)
           /\ sess.plan \in DOMAIN disk /\ Has(sess, "plan") /\ current.head = sess.base
           /\ current = sess.hash.plan
  <2>1. IsPlan(current)
    BY <1>4 DEF Savable, Bound
  <2>2. OnDisk(sess.plan, current)
    BY <1>4 DEF OnDisk
  <2> HIDE DEF current
  <2>3. IsPlan(new) /\ new.head = current.head
    <3> DEFINE p == [current EXCEPT !.prev = Initial]
               q == [p EXCEPT !.was = sess.hash.original]
    <3>1. new = q
      OBVIOUS
    <3>2. SamePlan(p, current)
      BY <2>1, EditedPlan
    <3> HIDE DEF p, new
    <3>3. SamePlan(q, p)
      BY <3>2, EditedPlan DEF SamePlan
    <3> HIDE DEF q
    <3> QED BY <3>1, <3>2, <3>3 DEF SamePlan
  <2> HIDE DEF new
  <2>4. audit.old = current /\ audit.new = new
    OBVIOUS
  <2> HIDE DEF audit
  <2>5. RepairOf(audit) /\ audit.new.head = sess.base
    BY <1>4, <2>2, <2>3, <2>4 DEF RepairOf
  <2> QED BY <1>4, <2>5, FreshRepairStartable DEF Savable
<1> QED BY <1>1, <1>2, <1>3, <1>4


LEMMA BindFine ==
  ASSUME NEW s, Bound(s) PROVE Fine(BindEffects(s))
<1> DEFINE plan == owner.accepted
           name == <<"objective", s.plan[2]>>
           more == [predecessor |-> s.hash.plan, plan |-> plan, binding |-> plan]
           e == Event(Record(s, more), s.status, s.issues, <<"bound", s.plan>>)
           c == [e EXCEPT !.plan = name]
           t == <<Put(name, plan), Check("target"), Check("authority"), Commit(c)>>
<1>1. \/ BindEffects(s) = << >>
      \/ /\ BindEffects(s) = t
         /\ plan = BoundPlan(s) /\ s.status = "READY"
  BY DEF BindEffects, BindObjectivePlan, Unexecuted, Refused
<1>2. CASE BindEffects(s) = << >>
  BY <1>2, FineEmpty
<1>3. CASE /\ BindEffects(s) = t
           /\ plan = BoundPlan(s) /\ s.status = "READY"
  <2>1. IsPlan(plan) /\ plan.head = s.base
    BY <1>3 DEF BoundPlan, Plan, IsPlan
  <2>2. "plan" \in DOMAIN more /\ more["plan"] = plan
    OBVIOUS
  <2>3. name[1] \in PlanKinds /\ name # Audit
    BY DEF PlanKinds, Audit
  <2> HIDE DEF plan, more, name
  <2>4. /\ IsSession(e) /\ Has(e, "plan") /\ e.hash["plan"] = plan
        /\ e.base = s.base /\ e.status = "READY"
    BY <1>3, <2>2, PlannedIs DEF Bound
  <2> HIDE DEF e
  <2>5. Changed(c, e, "plan", name)
    BY <2>4, Edited
  <2> HIDE DEF c
  <2>6. /\ IsSession(c) /\ Has(c, "plan") /\ c.hash["plan"] = plan
        /\ c.base = s.base /\ c.status = "READY" /\ c.plan = name
    BY <2>4, <2>5 DEF Changed, Has
  <2>7. Bound(c)
    BY <2>1, <2>3, <2>6, GivenPlanIsBound
  <2>8. /\ IsList(t) /\ Len(t) = 4
        /\ t[1].do = "put" /\ t[1].name = name /\ t[1].content = plan
        /\ t[2].do = "check" /\ t[3].do = "check"
        /\ t[4].do = "commit" /\ t[4].session = c
    BY Lists DEF Put, Check, Commit
  <2> HIDE DEF t
  <2>9. Backed(t, 4)
    BY <2>6, <2>8 DEF Backed, Provides
  <2>10. \A i \in 1..Len(t) : Saves(t[i]) => i = 4
    BY <2>8 DEF Saves
  <2>11. Proper(t)
    BY <2>7, <2>8, <2>9, <2>10 DEF Proper
  <2>12. Plain(t[1]) /\ Plain(t[2]) /\ Plain(t[3]) /\ Plain(t[4])
    BY <2>3, <2>6, <2>8 DEF Plain, Ordinary, Asks, Completes
  <2> QED BY <1>3, <2>8, <2>11, <2>12 DEF Fine
<1> QED BY <1>1, <1>2, <1>3

LEMMA CompletionStartable ==
  ASSUME NEW s, NEW passes, Savable(s) PROVE Startable(CompletionAttempt(s, passes))
<1> DEFINE d == Event(s, s.status, s.issues, <<"attempt">>)
           e == Event(s, "COMPLETED", {}, <<"completed">>)
           t == <<Call("validators"), Check("snapshot"), Check("snapshot"), Commit(e)>>
<1>1. \/ CompletionAttempt(s, passes) = << >>
      \/ CompletionAttempt(s, passes) = <<Save(d)>> /\ s.status # "COMPLETED"
      \/ CompletionAttempt(s, passes) = t
  BY DEF CompletionAttempt, CompleteEffects, Refused
<1>2. Savable(d) /\ d.status = s.status /\ Savable(e)
  BY EventSavable
<1> HIDE DEF d, e
<1>3. /\ IsList(t) /\ Len(t) = 4
      /\ t[1].do = "call" /\ t[1].who = "validators"
      /\ t[2].do = "check" /\ t[3].do = "check" /\ t[3] = Check("snapshot")
      /\ t[4].do = "commit" /\ t[4].session = e
  BY Lists DEF Call, Check, Commit
<1> HIDE DEF t
<1>4. Proper(t)
  <2>1. Backed(t, 4)
    BY <1>2, <1>3 DEF Backed, Savable
  <2>2. \A i \in 1..Len(t) : Saves(t[i]) => i = 4
    BY <1>3 DEF Saves
  <2> QED BY <1>2, <1>3, <2>1, <2>2 DEF Proper, Savable
<1>5. /\ \A i \in 1..Len(t) : Ordinary(t[i]) /\ ~Asks(t[i])
      /\ \A i \in 1..Len(t) : Completes(t[i]) => i = 4
  BY <1>3 DEF Ordinary, Asks, Completes
<1>6. Last(t, 4)
  BY <1>3 DEF Last
<1>7. Startable(t)
  BY <1>3, <1>4, <1>5, <1>6 DEF Startable, Safe
<1> QED BY <1>1, <1>2, <1>7, FineEmpty, FineSave, FineIsStartable

LEMMA AuditFine ==
  ASSUME NEW s, NEW time, Savable(s)
  PROVE  LET report == [kind |-> "audit", time |-> time] IN
         Fine(<<Put(<<"audit", 0>>, report),
                Save(Event(Record(s, [audit |-> report]), "AUDITED", {}, <<"audit">>))>>)
<1> DEFINE report == [kind |-> "audit", time |-> time]
           more == [audit |-> report]
           r == Record(s, more)
           e == Event(r, "AUDITED", {}, <<"audit">>)
           name == <<"audit", 0>>
<1>1. {"plan", "candidate"} \cap DOMAIN more = {}
  OBVIOUS
<1>2. name # Audit
  BY DEF Audit
<1> HIDE DEF name, more, report
<1>3. Savable(r)
  BY <1>1, KeptSavable
<1> HIDE DEF r
<1>4. Savable(e) /\ e.status = "AUDITED"
  BY <1>3, EventSavable
<1> HIDE DEF e
<1>5. Fine(<<Put(name, report), Save(e)>>)
  BY <1>2, <1>4, FinePutSave DEF Savable
<1> QED BY <1>5 DEF e, r, more, report, name

LEMMA CampaignFine ==
  ASSUME NEW s, Savable(s), s.status # "COMPLETED"
  PROVE  LET binding == [kind |-> "binding"] IN
         Fine(<<Put(<<"binding", 0>>, binding), Save(Record(s, [campaign |-> binding]))>>)
<1> DEFINE binding == [kind |-> "binding"]
           more == [campaign |-> binding]
           r == Record(s, more)
           name == <<"binding", 0>>
<1>1. {"plan", "candidate"} \cap DOMAIN more = {}
  OBVIOUS
<1>2. name # Audit
  BY DEF Audit
<1> HIDE DEF name, more, binding
<1>3. Savable(r) /\ r.status = s.status
  BY <1>1, KeptSavable
<1> HIDE DEF r
<1>4. Fine(<<Put(name, binding), Save(r)>>)
  BY <1>2, <1>3, FinePutSave DEF Savable
<1> QED BY <1>4 DEF r, more, binding, name

LEMMA CancelFine ==
  ASSUME NEW s, Savable(s) PROVE Fine(<<Save(Event(s, "CANCELLED", {}, <<"cancel">>))>>)
<1> DEFINE e == Event(s, "CANCELLED", {}, <<"cancel">>)
<1>1. Savable(e) /\ e.status = "CANCELLED"
  BY EventSavable
<1> HIDE DEF e
<1>2. Fine(<<Save(e)>>)
  BY <1>1, FineSave
<1> QED BY <1>2 DEF e


-----------------------------------------------------------------------------
(* Assessment.                                                             *)

(* Numbers of a set that is not empty have a least one.                    *)
LEMMA LeastNumber ==
  ASSUME NEW T, T \subseteq Nat, T # {} PROVE \E n \in T : \A k \in T : n <= k
<1>1. IsWellFoundedOn(OpToRel(<, Nat), Nat)
  BY NatLessThanWellFounded, Zenon
<1>2. \A x, y \in Nat : <<y, x>> \in OpToRel(<, Nat) <=> y < x
  BY Zenon DEF OpToRel
<1>3. \E R : IsWellFoundedOn(R, Nat) /\ \A x, y \in Nat : <<y, x>> \in R <=> y < x
  BY <1>1, <1>2, Zenon
<1>4. PICK R : IsWellFoundedOn(R, Nat) /\ \A x, y \in Nat : <<y, x>> \in R <=> y < x
  BY <1>3, Zenon
<1>5. \E x \in T : \A y \in T : ~(<<y, x>> \in R)
  BY <1>4, WFMin, Zenon
<1>6. \A x \in T : x \in Nat
  OBVIOUS
<1>7. \E x \in T : \A y \in T : ~(y < x)
  BY <1>4, <1>5, <1>6, Zenon
<1> QED BY <1>7

(* The one question of the list is put right after its slot is recorded.   *)
Asked(t, k) ==
  /\ Proper(t) /\ k \in Nat /\ k > 1
  /\ \A i \in 1..Len(t) :
       /\ Ordinary(t[i]) /\ ~Completes(t[i])
       /\ Asks(t[i]) => \A j \in 1..i - 1 : t[j].do = "put"
       /\ Asks(t[i]) => i = k \/ ~Has(sess, "campaign")
  /\ Has(sess, "campaign") =>
       /\ k <= Len(t)
       /\ \E n \in Slots \ Used : t[k - 1].name = <<"started", n>>
       /\ \A i \in 1..k - 2 : t[i].name[1] = "legacy"

LEMMA AskedIsStartable ==
  ASSUME NEW t, NEW k, Asked(t, k) PROVE Startable(t)
<1>1. Len(t) \in Nat
  BY DEF Asked, Proper, IsList
<1>2. ASSUME NEW i \in 1..Len(t), Asks(t[i]), Has(sess, "campaign") PROVE Askable(t, i)
  <2>1. i = k
    BY <1>2 DEF Asked
  <2> QED BY <1>2, <2>1 DEF Asked, Askable
<1> QED BY <1>1, <1>2 DEF Asked, Startable, Safe

LEMMA InvokeAsked ==
  ASSUME Retries \in Nat, AssessmentAllowed(sess) PROVE Asked(Invoke(sess), 2)
<1>1. CASE Has(sess, "campaign")
  <2> DEFINE n == CHOOSE n \in Free : \A k \in Free : n <= k
             t == Invocation(n)
  <2>1. Free \subseteq Nat /\ Free # {}
    BY <1>1 DEF AssessmentAllowed, Free, Slots
  <2>2. n \in Free
    BY <2>1, LeastNumber
  <2>3. Invoke(sess) = t
    BY <1>1 DEF Invoke
  <2> HIDE DEF n
  <2>4. n \in Slots \ Used
    BY <2>2 DEF Free, Used
  <2>5. /\ IsList(t) /\ Len(t) = 3
        /\ t[1].do = "put" /\ t[1].name = <<"started", n>>
        /\ t[2].do = "call"
        /\ t[3].do = "put" /\ t[3].name = <<"finished", n>>
    BY Lists DEF Invocation, Put, Call
  <2> HIDE DEF t
  <2>6. \A i \in 1..Len(t) : Ordinary(t[i]) /\ ~Completes(t[i]) /\ ~Saves(t[i])
    BY <2>5 DEF Ordinary, Completes, Saves, Audit
  <2>7. \A i \in 1..Len(t) : Asks(t[i]) => i = 2
    BY <2>5 DEF Asks
  <2>8. Proper(t)
    BY <2>5, <2>6 DEF Proper
  <2> QED BY <2>3, <2>4, <2>5, <2>6, <2>7, <2>8 DEF Asked
<1>2. CASE ~Has(sess, "campaign")
  <2> DEFINE t == <<Call("provider")>>
  <2>1. IsList(t) /\ Len(t) = 1 /\ t[1].do = "call" /\ Invoke(sess) = t
    BY <1>2, Lists DEF Invoke, Call
  <2> HIDE DEF t
  <2>2. \A i \in 1..Len(t) : Ordinary(t[i]) /\ ~Completes(t[i]) /\ ~Saves(t[i])
    BY <2>1 DEF Ordinary, Completes, Saves
  <2>3. Proper(t)
    BY <2>1, <2>2 DEF Proper
  <2>4. ~Has(sess, "campaign") /\ 2 \in Nat /\ 2 > 1
    BY <1>2
  <2>5. Asked(t, 2)
    BY <2>1, <2>2, <2>3, <2>4 DEF Asked
  <2> QED BY <2>1, <2>5
<1> QED BY <1>1, <1>2

LEMMA CommitAssessmentFine ==
  ASSUME NEW s, NEW clean, NEW answer, IsSession(s), repo.head = s.base
  PROVE  Fine(CommitAssessment(s, clean, answer))
<1> DEFINE v        == NextVersion
           old      == IF s.plan \in DOMAIN disk THEN disk[s.plan] ELSE Nothing
           evidence == [kind |-> "evidence", head |-> repo.head, plan |-> old,
                        answer |-> answer]
           observed == AssessRepository(clean)
           plan     == Plan("assessed", repo.head, clean, s.plan, old)
           first    == IF Hash(s, "original") # Nothing THEN s.hash.original ELSE old
           status   == DeriveArchitecture(clean, answer)
           issues   == IF status \in {"BLOCKED", "RETRY_REQUIRED"} THEN {"assessment"} ELSE {}
           more     == [original |-> first, predecessor |-> old, plan |-> plan,
                        assessment |-> observed, evidence |-> evidence]
           e == Event(Record(s, more), status, issues, <<"assess">>)
           c == [e EXCEPT !.plan = PlanAt(v)]
           t == <<Put(<<"evidence", v>>, evidence), Put(<<"assessment", v>>, observed),
                  Put(PlanAt(v), plan), Save(c)>>
<1>1. CommitAssessment(s, clean, answer) = t
  BY DEF CommitAssessment
<1>2. IsPlan(plan) /\ plan.head = s.base
  BY DEF Plan, IsPlan
<1>3. status # "COMPLETED"
  BY DEF DeriveArchitecture
<1>4. "plan" \in DOMAIN more /\ more["plan"] = plan
  OBVIOUS
<1>5. /\ PlanAt(v)[1] \in PlanKinds /\ PlanAt(v) # Audit
      /\ <<"evidence", v>> # Audit /\ <<"assessment", v>> # Audit
  BY DEF PlanAt, PlanKinds, Audit
<1> HIDE DEF v, more, plan, observed, evidence, status, issues
<1>6. /\ IsSession(e) /\ Has(e, "plan") /\ e.hash["plan"] = plan
      /\ e.base = s.base /\ e.status = status
  BY <1>4, PlannedIs
<1> HIDE DEF e
<1>7. Changed(c, e, "plan", PlanAt(v))
  BY <1>6, Edited
<1> HIDE DEF c
<1>8. /\ IsSession(c) /\ Has(c, "plan") /\ c.hash["plan"] = plan
      /\ c.base = s.base /\ c.status = status /\ c.plan = PlanAt(v)
  BY <1>6, <1>7 DEF Changed, Has
<1>9. Bound(c)
  BY <1>2, <1>5, <1>8, GivenPlanIsBound
<1>10. /\ IsList(t) /\ Len(t) = 4
       /\ t[1].do = "put" /\ t[1].name = <<"evidence", v>>
       /\ t[2].do = "put" /\ t[2].name = <<"assessment", v>>
       /\ t[3].do = "put" /\ t[3].name = PlanAt(v) /\ t[3].content = plan
       /\ t[4].do = "save" /\ t[4].session = c
  BY Lists DEF Put, Save
<1> HIDE DEF t
<1>11. Backed(t, 4)
  BY <1>8, <1>10 DEF Backed, Provides
<1>12. \A i \in 1..Len(t) : Saves(t[i]) => i = 4
  BY <1>10 DEF Saves
<1>13. Proper(t)
  BY <1>3, <1>8, <1>9, <1>10, <1>11, <1>12 DEF Proper
<1>14. Plain(t[1]) /\ Plain(t[2]) /\ Plain(t[3]) /\ Plain(t[4])
  BY <1>5, <1>10 DEF Plain, Ordinary, Asks, Completes
<1> QED BY <1>1, <1>10, <1>13, <1>14 DEF Fine


LEMMA AskedThenFine ==
  ASSUME NEW t, NEW u, NEW k, Asked(t, k), Fine(u) PROVE Asked(t \o u, k)
<1> DEFINE w == t \o u
<1>1. Follows(u, t)
  BY DEF Fine, Proper, Follows
<1>2. Proper(w)
  BY <1>1, ProperConcat DEF Asked
<1>3. /\ Len(w) = Len(t) + Len(u)
      /\ \A i \in 1..Len(w) : w[i] = IF i <= Len(t) THEN t[i] ELSE u[i - Len(t)]
  BY ConcatOfLists DEF Asked, Fine, Proper
<1>4. Len(t) \in Nat /\ Len(u) \in Nat /\ k \in Nat /\ k > 1
  BY DEF Asked, Fine, Proper, IsList
<1> HIDE DEF w
<1>5. ASSUME NEW i \in 1..Len(w)
      PROVE  /\ Ordinary(w[i]) /\ ~Completes(w[i])
             /\ Asks(w[i]) => \A j \in 1..i - 1 : w[j].do = "put"
             /\ Asks(w[i]) => i = k \/ ~Has(sess, "campaign")
  <2>1. CASE i <= Len(t)
    <3>1. i \in 1..Len(t) /\ w[i] = t[i] /\ \A j \in 1..i - 1 : w[j] = t[j]
      BY <1>3, <1>4, <2>1
    <3> QED BY <3>1 DEF Asked
  <2>2. CASE ~(i <= Len(t))
    <3>1. i - Len(t) \in 1..Len(u) /\ w[i] = u[i - Len(t)]
      BY <1>3, <1>4, <2>2
    <3> QED BY <3>1 DEF Fine, Plain
  <2> QED BY <2>1, <2>2
<1>6. ASSUME Has(sess, "campaign")
      PROVE  /\ k <= Len(w)
             /\ \A i \in 1..k - 1 : w[i] = t[i]
  <2>1. k <= Len(t)
    BY <1>6 DEF Asked
  <2> QED BY <1>3, <1>4, <2>1
<1>7. Asked(w, k)
  <2>1. ASSUME Has(sess, "campaign")
        PROVE  /\ k <= Len(w)
               /\ \E n \in Slots \ Used : w[k - 1].name = <<"started", n>>
               /\ \A i \in 1..k - 2 : w[i].name[1] = "legacy"
    <3>1. /\ \E n \in Slots \ Used : t[k - 1].name = <<"started", n>>
          /\ \A i \in 1..k - 2 : t[i].name[1] = "legacy"
      BY <2>1 DEF Asked
    <3>2. k - 1 \in 1..k - 1 /\ \A i \in 1..k - 2 : i \in 1..k - 1
      BY <1>4
    <3> QED BY <1>6, <2>1, <3>1, <3>2
  <2> QED BY <1>2, <1>4, <1>5, <2>1 DEF Asked
<1> QED BY <1>7 DEF w

LEMMA LegacyThenAsked ==
  ASSUME NEW t, NEW k, NEW content, Asked(t, k)
  PROVE  Asked(<<Put(<<"legacy", 0>>, content)>> \o t, k + 1)
<1> DEFINE l == <<Put(<<"legacy", 0>>, content)>>
           w == l \o t
<1>1. /\ IsList(l) /\ Len(l) = 1 /\ l[1].do = "put" /\ l[1].name = <<"legacy", 0>>
  BY Lists DEF Put
<1> HIDE DEF l
<1>2. Proper(l) /\ Plain(l[1])
  BY <1>1 DEF Proper, Saves, Plain, Ordinary, Asks, Completes, Audit
<1>3. Proper(w)
  <2>1. Follows(t, l)
    BY DEF Asked, Proper, Follows
  <2> QED BY <1>2, <2>1, ProperConcat
<1>4. Len(t) \in Nat /\ k \in Nat /\ k > 1
  BY DEF Asked, Proper, IsList
<1>5. /\ Len(w) = Len(t) + 1 /\ w[1] = l[1]
      /\ \A i \in 1..Len(t) : w[i + 1] = t[i]
  <2>1. /\ Len(w) = Len(l) + Len(t)
        /\ \A i \in 1..Len(w) : w[i] = IF i <= Len(l) THEN l[i] ELSE t[i - Len(l)]
    BY <1>1, ConcatOfLists DEF Asked, Proper
  <2> QED BY <1>1, <1>4, <2>1
<1> HIDE DEF w
<1>6. ASSUME NEW i \in 1..Len(w)
      PROVE  /\ Ordinary(w[i]) /\ ~Completes(w[i])
             /\ Asks(w[i]) => \A j \in 1..i - 1 : w[j].do = "put"
             /\ Asks(w[i]) => i = k + 1 \/ ~Has(sess, "campaign")
  <2>1. CASE i = 1
    BY <1>2, <1>5, <2>1 DEF Plain
  <2>2. CASE i # 1
    <3>1. i - 1 \in 1..Len(t) /\ w[i] = t[i - 1]
      BY <1>4, <1>5, <2>2
    <3>2. /\ Ordinary(w[i]) /\ ~Completes(w[i])
          /\ Asks(w[i]) => i - 1 = k \/ ~Has(sess, "campaign")
          /\ Asks(w[i]) => \A j \in 1..(i - 1) - 1 : t[j].do = "put"
      BY <3>1 DEF Asked
    <3>3. ASSUME Asks(w[i]), NEW j \in 1..i - 1 PROVE w[j].do = "put"
      <4>1. CASE j = 1
        BY <1>1, <1>5, <4>1
      <4>2. CASE j # 1
        <5>1. j - 1 \in 1..(i - 1) - 1 /\ j - 1 \in 1..Len(t) /\ (j - 1) + 1 = j
          BY <1>4, <1>5, <2>2, <4>2
        <5>2. w[j] = t[j - 1]
          BY <1>5, <5>1
        <5> QED BY <3>2, <3>3, <5>1, <5>2
      <4> QED BY <4>1, <4>2
    <3> QED BY <1>4, <3>1, <3>2, <3>3
  <2> QED BY <2>1, <2>2
<1>7. ASSUME Has(sess, "campaign")
      PROVE  /\ k + 1 <= Len(w)
             /\ \E n \in Slots \ Used : w[k].name = <<"started", n>>
             /\ \A i \in 1..k - 1 : w[i].name[1] = "legacy"
  <2>1. /\ k <= Len(t)
        /\ \E n \in Slots \ Used : t[k - 1].name = <<"started", n>>
        /\ \A i \in 1..k - 2 : t[i].name[1] = "legacy"
    BY <1>7 DEF Asked
  <2>2. \A i \in 2..k : i - 1 \in 1..k - 1 /\ w[i] = t[i - 1]
    BY <1>4, <1>5, <2>1
  <2>3. w[k] = t[k - 1]
    BY <1>4, <2>2
  <2>4. \A i \in 1..k - 1 : w[i].name[1] = "legacy"
    <3> SUFFICES ASSUME NEW i \in 1..k - 1 PROVE w[i].name[1] = "legacy"
      OBVIOUS
    <3>1. i = 1 \/ (i \in 2..k /\ i - 1 \in 1..k - 2)
      BY <1>4
    <3>2. CASE i = 1
      BY <1>1, <1>5, <3>2
    <3>3. CASE i \in 2..k /\ i - 1 \in 1..k - 2
      BY <2>1, <2>2, <3>3
    <3> QED BY <3>1, <3>2, <3>3
  <2>5. k + 1 <= Len(w)
    BY <1>4, <1>5, <2>1
  <2> QED BY <2>1, <2>3, <2>4, <2>5
<1>8. /\ k + 1 \in Nat /\ k + 1 > 1 /\ (k + 1) - 1 = k /\ (k + 1) - 2 = k - 1
  BY <1>4
<1>9. Asked(w, k + 1)
  BY <1>3, <1>6, <1>7, <1>8 DEF Asked
<1> QED BY <1>9 DEF w, l

LEMMA AssessStartable ==
  ASSUME NEW answer, Savable(sess), Retries \in Nat
  PROVE  Startable(AssessEffects(sess, answer))
<1> DEFINE clean == repo.tree = 0
           a == AssessEffects(sess, answer)
           f == FreshAssessment(sess, answer)
           l == <<Put(<<"legacy", 0>>, sess.hash.assessment)>>
<1>1. \/ \E reason, action : a = MarkStale(sess, reason, action)
      \/ a = << >> \/ a = MarkRetry(sess) \/ a = l \o f \/ a = f
  BY DEF AssessEffects, Refused
<1>2. \/ \E reason, action : f = MarkStale(sess, reason, action)
      \/ f = << >>
      \/ /\ repo.head = sess.base /\ AssessmentAllowed(sess)
         /\ \/ f = Invoke(sess) \o << >>
            \/ f = Invoke(sess) \o CommitAssessment(sess, clean, answer)
  BY DEF FreshAssessment, Drifted, Refused
<1>3. Fine(f) \/ Asked(f, 2)
  <2>1. ASSUME repo.head = sess.base, AssessmentAllowed(sess),
               \/ f = Invoke(sess) \o << >>
               \/ f = Invoke(sess) \o CommitAssessment(sess, clean, answer)
        PROVE  Asked(f, 2)
    <3>1. Fine(CommitAssessment(sess, clean, answer))
      BY <2>1, CommitAssessmentFine DEF Savable, Bound
    <3>2. Asked(Invoke(sess), 2)
      BY <2>1, InvokeAsked
    <3>3. /\ Asked(Invoke(sess) \o << >>, 2)
          /\ Asked(Invoke(sess) \o CommitAssessment(sess, clean, answer), 2)
      BY <3>1, <3>2, FineEmpty, AskedThenFine
    <3> HIDE DEF f
    <3> QED BY <2>1, <3>3
  <2> HIDE DEF f
  <2> QED BY <1>2, <2>1, MarkStaleFine, FineEmpty
<1> HIDE DEF f
<1>4. Startable(f)
  BY <1>3, FineIsStartable, AskedIsStartable
<1>5. Startable(l \o f)
  <2>1. CASE Asked(f, 2)
    <3>1. Asked(l \o f, 2 + 1)
      BY <2>1, LegacyThenAsked
    <3> QED BY <3>1, AskedIsStartable
  <2>2. CASE Fine(f)
    <3>1. IsList(l) /\ Len(l) = 1 /\ l[1].do = "put" /\ l[1].name # Audit
      BY Lists DEF Put, Audit
    <3> HIDE DEF l
    <3>2. Fine(l)
      BY <3>1 DEF Fine, Proper, Saves, Plain, Ordinary, Asks, Completes
    <3> QED BY <2>2, <3>2, FineThenFine, FineIsStartable
  <2> QED BY <1>3, <2>1, <2>2
<1>6. CASE a = << >> \/ a = MarkRetry(sess) \/ \E reason, action : a = MarkStale(sess, reason, action)
  <2>1. Fine(a)
    BY <1>6, FineEmpty, MarkRetryFine, MarkStaleFine
  <2> QED BY <2>1, FineIsStartable
<1> QED BY <1>1, <1>4, <1>5, <1>6


-----------------------------------------------------------------------------
(* A command begins, a command ends.                                       *)

LEMMA SafeUnmoved ==
  ASSUME NEW t, Safe(t), UNCHANGED <<sess, disk, seen>>, op'.todo = t
  PROVE  Safe(op.todo)'
<1>1. Used' = Used
  BY DEF Used
<1>2. \A s : Retained(s)' <=> Retained(s)
  BY DEF Retained, OnDisk
<1>3. Proper(op.todo)'
  <2>1. IsList(t) /\ \A i \in 1..Len(t) : Saves(t[i]) =>
             /\ Bound(t[i].session) /\ Backed(t, i)
             /\ t[i].do = "save" => t[i].session.status # "COMPLETED"
    BY DEF Safe, Proper
  <2>2. \A i \in 1..Len(t) : Backed(t, i) => Backed(op.todo, i)'
    BY DEF Backed, Retained, OnDisk
  <2> QED BY <2>1, <2>2 DEF Proper
<1>4. (\A i \in 1..Len(t) : Ordinary(t[i])) \/ Repairing(op.todo)'
  BY DEF Safe, Repairing, RepairOf, OnDisk
<1>5. ASSUME NEW i \in 1..Len(t), Asks(t[i]), Has(sess, "campaign")
      PROVE  Askable(op.todo, i)'
  <2>1. Askable(t, i)
    BY <1>5 DEF Safe
  <2> QED BY <1>1, <2>1 DEF Askable
<1>6. \A i \in 1..Len(t) : Completes(t[i]) => Last(t, i)
  BY DEF Safe
<1> QED BY <1>3, <1>4, <1>5, <1>6 DEF Safe, Last

LEMMA Begun ==
  ASSUME SessionInv, NEW kind, NEW effects, Startable(effects), Begin(kind, effects)
  PROVE  SessionInv'
<1>1. /\ op' = [kind |-> kind, todo |-> effects, repo |-> repo, project |-> project,
                owner |-> owner, stopped |-> FALSE]
      /\ UNCHANGED <<owner, sess, disk, seen>> /\ effects # << >>
  BY DEF Begin, Refused
<1>2. op'.todo = effects /\ op'.owner = owner /\ op'.stopped = FALSE
  BY <1>1
<1>3. Shapes'
  BY <1>1 DEF SessionInv, Shapes
<1>4. Len(effects) > 0
  <2>1. IsList(effects)
    BY DEF Startable, Safe, Proper
  <2> QED BY <1>1, <2>1 DEF IsList
<1>5. CommandInv'
  BY <1>1, <1>4 DEF SessionInv, Shapes, CommandInv
<1>6. Safe(op.todo)'
  BY <1>1, <1>2, SafeUnmoved DEF Startable
<1>7. Confirmed'
  BY <1>2 DEF Startable, Confirmed
<1>8. PlanRetained'
  BY <1>1 DEF SessionInv, PlanRetained, OnDisk
<1>9. Bound(sess)' /\ (seen.provider <= Cardinality(Used))'
  BY <1>1 DEF SessionInv, Used
<1> QED BY <1>3, <1>5, <1>6, <1>7, <1>8, <1>9 DEF SessionInv, EffectsInv

LEMMA NothingLeft ==
  ASSUME op' = Idle PROVE CommandInv' /\ EffectsInv'
<1>1. op'.todo = << >> /\ Len(op'.todo) = 0
  BY DEF Idle
<1>2. CommandInv'
  BY DEF CommandInv, Idle
<1>3. Proper(op.todo)'
  BY <1>1, Lists DEF Proper
<1>4. Safe(op.todo)' /\ Confirmed'
  BY <1>1, <1>3 DEF Safe, Confirmed
<1> QED BY <1>2, <1>4 DEF EffectsInv

(* A file is added or replaced and the others stay.                        *)
Grown(w, files, name, content) ==
  /\ DOMAIN w = DOMAIN files \cup {name} /\ w[name] = content
  /\ \A k \in DOMAIN files \ {name} : w[k] = files[k]
  /\ w = [k \in DOMAIN w |-> w[k]]

LEMMA WithIs ==
  ASSUME NEW files, NEW name, NEW content
  PROVE  Grown(With(files, name, content), files, name, content)
BY DEF With, Grown


-----------------------------------------------------------------------------
(* Every command begins with effects that may be started.                  *)

LEMMA RecordSavable ==
  ASSUME SessionInv PROVE Savable(sess)
BY DEF SessionInv, Savable, PlanRetained, Retained

LEMMA CommandBegins ==
  ASSUME SessionInv, NEW kind, NEW effects, Startable(effects), Command(kind, effects)
  PROVE  SessionInv'
BY Begun DEF Command

LEMMA Commands ==
  ASSUME SessionInv,
         \/ Start \/ Resume \/ ResumeInitialPlanning \/ Assess \/ ReconcileCanonicalTarget
         \/ ReconcileExternal \/ ReconcileResult \/ RepairLineage \/ BindPlan \/ Complete
         \/ AuditReadonly \/ Cancel \/ BindCampaign
  PROVE  SessionInv'
<1>0. /\ Savable(sess) /\ Bound(sess) /\ IsSession(sess) /\ Shapes /\ Retries \in Nat
  BY RecordSavable, SessionBounds DEF SessionInv, Bound
<1>1. CASE Start
  <2>1. Startable(StartEffects)
    BY StartFine, FineIsStartable
  <2> QED BY <1>1, <2>1, CommandBegins DEF Start
<1>2. CASE Resume
  <2>1. PICK execute \in BOOLEAN : Command("resume", ResumeEffects(sess, execute))
    BY <1>2 DEF Resume
  <2>2. Startable(ResumeEffects(sess, execute))
    BY <1>0, ResumeFine, FineIsStartable
  <2> QED BY <2>1, <2>2, CommandBegins
<1>3. CASE ResumeInitialPlanning
  <2>1. Startable(ResumeEffects(sess, FALSE))
    BY <1>0, ResumeFine, FineIsStartable
  <2> QED BY <1>3, <2>1, Begun DEF ResumeInitialPlanning
<1>4. CASE Assess
  <2>1. PICK answer : Command("assess", AssessEffects(sess, answer))
    BY <1>4 DEF Assess
  <2>2. Startable(AssessEffects(sess, answer))
    BY <1>0, AssessStartable
  <2> QED BY <2>1, <2>2, CommandBegins
<1>5. CASE ReconcileCanonicalTarget
  <2>1. Startable(ReconcileCanonical(sess))
    BY <1>0, CanonicalFine, FineIsStartable
  <2> QED BY <1>5, <2>1, CommandBegins DEF ReconcileCanonicalTarget
<1>6. CASE ReconcileExternal
  <2>1. PICK from \in 1..MaxHead :
               Command("external", ReconcileExternalAdvance(sess, from))
    BY <1>6 DEF ReconcileExternal
  <2>2. Startable(ReconcileExternalAdvance(sess, from))
    BY <1>0, ExternalAdvanceFine, FineIsStartable
  <2> QED BY <2>1, <2>2, CommandBegins
<1>7. CASE ReconcileResult
  <2>1. Startable(ReconcileExternalResult(sess))
    BY <1>0, ExternalResultFine, FineIsStartable
  <2> QED BY <1>7, <2>1, CommandBegins DEF ReconcileResult
<1>8. CASE RepairLineage
  <2>1. Startable(RepairEffects(sess))
    BY <1>0, RepairStartable
  <2> QED BY <1>8, <2>1, CommandBegins DEF RepairLineage
<1>9. CASE BindPlan
  <2>1. Startable(BindEffects(sess))
    BY <1>0, BindFine, FineIsStartable
  <2> QED BY <1>9, <2>1, CommandBegins DEF BindPlan
<1>10. CASE Complete
  <2>1. PICK passes \in BOOLEAN : Command("complete", CompletionAttempt(sess, passes))
    BY <1>10 DEF Complete
  <2>2. Startable(CompletionAttempt(sess, passes))
    BY <1>0, CompletionStartable
  <2> QED BY <2>1, <2>2, CommandBegins
<1>11. CASE AuditReadonly
  <2> DEFINE report == [kind |-> "audit", time |-> spent.commands]
             t == <<Put(<<"audit", 0>>, report),
                    Save(Event(Record(sess, [audit |-> report]), "AUDITED", {}, <<"audit">>))>>
  <2>1. Fine(t)
    BY <1>0, AuditFine
  <2>2. Command("audit", t)
    BY <1>11 DEF AuditReadonly
  <2> HIDE DEF t
  <2> QED BY <2>1, <2>2, FineIsStartable, CommandBegins
<1>12. CASE Cancel
  <2> DEFINE t == <<Save(Event(sess, "CANCELLED", {}, <<"cancel">>))>>
  <2>1. Fine(t)
    BY <1>0, CancelFine
  <2>2. Command("cancel", t)
    BY <1>12 DEF Cancel
  <2> HIDE DEF t
  <2> QED BY <2>1, <2>2, FineIsStartable, CommandBegins
<1>13. CASE BindCampaign
  <2> DEFINE binding == [kind |-> "binding"]
             t == <<Put(<<"binding", 0>>, binding), Save(Record(sess, [campaign |-> binding]))>>
  <2>1. Fine(t)
    BY <1>0, <1>13, CampaignFine DEF BindCampaign
  <2>2. Command("campaign", t)
    BY <1>13 DEF BindCampaign
  <2> HIDE DEF t
  <2> QED BY <2>1, <2>2, FineIsStartable, CommandBegins
<1> QED BY <1>1, <1>2, <1>3, <1>4, <1>5, <1>6, <1>7, <1>8, <1>9, <1>10, <1>11, <1>12, <1>13


-----------------------------------------------------------------------------
(* What changes beside the session, and a crash.                           *)

LEMMA RecordUnmoved ==
  ASSUME SessionInv, UNCHANGED <<sess, disk, seen>>
  PROVE  /\ Bound(sess)' /\ PlanRetained' /\ (seen.provider <= Cardinality(Used))'
         /\ (disk = [n \in DOMAIN disk |-> disk[n]])'
         /\ (Audit \in DOMAIN disk => IsPlan(disk[Audit].new))'
         /\ (seen.provider \in Nat)'
         /\ (seen = [planner |-> seen.planner, provider |-> seen.provider,
                     refused |-> seen.refused])'
<1>1. Bound(sess)' /\ (seen.provider <= Cardinality(Used))'
  BY DEF SessionInv, Used
<1>2. PlanRetained'
  BY DEF SessionInv, PlanRetained, OnDisk
<1> QED BY <1>1, <1>2 DEF SessionInv, Shapes

LEMMA OwnerUnmoved ==
  ASSUME SessionInv, UNCHANGED <<owner, sess, disk, op, seen>>
  PROVE  SessionInv'
<1>1. Shapes'
  BY DEF SessionInv, Shapes
<1>2. CommandInv'
  BY DEF SessionInv, CommandInv
<1>3. Safe(op.todo)'
  BY SafeUnmoved DEF SessionInv, EffectsInv
<1>4. Confirmed'
  BY DEF SessionInv, EffectsInv, Confirmed
<1> QED BY <1>1, <1>2, <1>3, <1>4, RecordUnmoved DEF SessionInv, EffectsInv

LEMMA AcceptObjectiveKeeps == SessionInv /\ AcceptObjective => SessionInv'
<1> SUFFICES ASSUME SessionInv, AcceptObjective PROVE SessionInv'
  OBVIOUS
<1> DEFINE accepted == IF owner.accepted = BoundPlan(sess) THEN Nothing ELSE BoundPlan(sess)
<1>1. owner' = [owner EXCEPT !.accepted = accepted] /\ UNCHANGED <<sess, disk, op, seen>>
  BY DEF AcceptObjective, Beside
<1> HIDE DEF accepted
<1>2. /\ owner = [accepted |-> owner.accepted, stopped |-> owner.stopped, stops |-> owner.stops]
      /\ owner.stops \in Nat
  BY DEF SessionInv, Shapes
<1>3. owner \in [accepted : {owner.accepted}, stopped : {owner.stopped}, stops : {owner.stops}]
  BY <1>2
<1>4. /\ owner' = [accepted |-> owner'.accepted, stopped |-> owner'.stopped,
                   stops |-> owner'.stops]
      /\ owner'.stops = owner.stops
  BY <1>1, <1>3
<1>5. Shapes'
  BY <1>1, <1>2, <1>4, RecordUnmoved DEF Shapes
<1>6. CommandInv'
  BY <1>1, <1>4 DEF SessionInv, CommandInv
<1>7. Safe(op.todo)'
  BY <1>1, SafeUnmoved DEF SessionInv, EffectsInv
<1>8. Confirmed'
  BY <1>1 DEF SessionInv, EffectsInv, Confirmed
<1> QED BY <1>1, <1>5, <1>6, <1>7, <1>8, RecordUnmoved DEF SessionInv, EffectsInv

LEMMA SetStopKeeps == SessionInv /\ SetStop => SessionInv'
<1> SUFFICES ASSUME SessionInv, SetStop PROVE SessionInv'
  OBVIOUS
<1>1. /\ owner' = [owner EXCEPT !.stopped = ~owner.stopped, !.stops = owner.stops + 1]
      /\ UNCHANGED <<sess, disk, seen>>
      /\ op' = IF op # Idle /\ Len(op.todo) > 1 THEN [op EXCEPT !.stopped = TRUE] ELSE op
  BY DEF SetStop, Beside
<1>2. /\ owner = [accepted |-> owner.accepted, stopped |-> owner.stopped, stops |-> owner.stops]
      /\ owner.stops \in Nat
  BY DEF SessionInv, Shapes
<1>3. /\ owner' = [accepted |-> owner'.accepted, stopped |-> owner'.stopped,
                   stops |-> owner'.stops]
      /\ owner'.stops = owner.stops + 1
  <2> DEFINE stopped == ~owner.stopped
             stops == owner.stops + 1
  <2>1. owner' = [owner EXCEPT !.stopped = stopped, !.stops = stops]
    BY <1>1
  <2>2. owner \in [accepted : {owner.accepted}, stopped : {owner.stopped}, stops : {owner.stops}]
    BY <1>2
  <2> HIDE DEF stopped
  <2> QED BY <2>1, <2>2
<1>4. Shapes'
  BY <1>1, <1>2, <1>3, RecordUnmoved DEF Shapes
<1>5. CASE op # Idle /\ Len(op.todo) > 1
  <2>1. /\ op = [kind |-> op.kind, todo |-> op.todo, repo |-> op.repo, project |-> op.project,
                 owner |-> op.owner, stopped |-> op.stopped]
        /\ op.owner.stops \in Nat /\ op.owner.stops <= owner.stops
    BY <1>5 DEF SessionInv, CommandInv
  <2>2. op' = [op EXCEPT !.stopped = TRUE]
    BY <1>1, <1>5
  <2>3. op' = [kind |-> op.kind, todo |-> op.todo, repo |-> op.repo, project |-> op.project,
               owner |-> op.owner, stopped |-> TRUE]
    BY <2>1, <2>2
  <2>4. op'.owner.stops \in Nat /\ op'.owner.stops < owner'.stops
    BY <1>2, <1>3, <2>1, <2>3
  <2>5. op'.owner.stops <= owner'.stops
    BY <1>2, <1>3, <2>4
  <2>6. CommandInv'
    BY <1>5, <2>3, <2>4, <2>5 DEF CommandInv
  <2>7. Safe(op.todo)'
    BY <1>1, <2>3, SafeUnmoved DEF SessionInv, EffectsInv
  <2>8. Confirmed'
    <3>1. op'.todo = op.todo
      BY <2>3
    <3>2. Len(op.todo) # 1
      <4>1. Len(op.todo) \in Nat /\ Len(op.todo) > 1
        BY <1>5 DEF SessionInv, EffectsInv, Safe, Proper, IsList
      <4>2. \A n \in Nat : n > 1 => n # 1
        OBVIOUS
      <4> QED BY <4>1, <4>2, Zenon
    <3> QED BY <3>1, <3>2 DEF Confirmed
  <2> QED BY <1>1, <1>4, <2>6, <2>7, <2>8, RecordUnmoved DEF SessionInv, EffectsInv
<1>6. CASE ~(op # Idle /\ Len(op.todo) > 1)
  <2>1. op' = op
    BY <1>1, <1>6
  <2>2. /\ op = [kind |-> op.kind, todo |-> op.todo, repo |-> op.repo, project |-> op.project,
                 owner |-> op.owner, stopped |-> op.stopped]
        /\ op.stopped \in BOOLEAN
        /\ op = Idle \/ Len(op.todo) > 0
    BY DEF SessionInv, CommandInv
  <2>3. op # Idle =>
          /\ op.owner.stops \in Nat /\ op.owner.stops <= owner'.stops
          /\ op.stopped => op.owner.stops < owner'.stops
    <3>1. op # Idle =>
            /\ op.owner.stops \in Nat /\ op.owner.stops <= owner.stops
            /\ op.stopped => op.owner.stops < owner.stops
      BY DEF SessionInv, CommandInv
    <3> QED BY <1>2, <1>3, <3>1
  <2>4. CommandInv'
    BY <2>1, <2>2, <2>3 DEF CommandInv
  <2>5. Safe(op.todo)'
    BY <1>1, <2>1, SafeUnmoved DEF SessionInv, EffectsInv
  <2>6. Confirmed'
    BY <2>1 DEF SessionInv, EffectsInv, Confirmed
  <2> QED BY <1>1, <1>4, <2>4, <2>5, <2>6, RecordUnmoved DEF SessionInv, EffectsInv
<1> QED BY <1>5, <1>6

LEMMA CrashKeeps == SessionInv /\ Crash => SessionInv'
<1> SUFFICES ASSUME SessionInv, Crash PROVE SessionInv'
  OBVIOUS
<1>1. op' = Idle /\ UNCHANGED <<owner, sess, disk, seen>>
  BY DEF Crash
<1>2. Shapes'
  BY <1>1 DEF SessionInv, Shapes
<1> QED BY <1>1, <1>2, NothingLeft, RecordUnmoved DEF SessionInv

LEMMA BesideKeeps ==
  ASSUME SessionInv,
         \/ MoveTarget \/ TouchTree \/ SwitchBranch \/ Deliver \/ VerifyProject
         \/ SetStatus \/ RemoveProject \/ AddProject \/ AcceptObjective \/ SetStop
         \/ UNCHANGED vars
  PROVE  SessionInv'
<1>1. CASE AcceptObjective
  BY <1>1, AcceptObjectiveKeeps
<1>2. CASE SetStop
  BY <1>2, SetStopKeeps
<1>3. CASE \/ MoveTarget \/ TouchTree \/ SwitchBranch \/ Deliver \/ VerifyProject
           \/ SetStatus \/ RemoveProject \/ AddProject \/ UNCHANGED vars
  <2>1. UNCHANGED <<owner, sess, disk, op, seen>>
    BY <1>3 DEF MoveTarget, TouchTree, SwitchBranch, Deliver, VerifyProject, SetStatus,
                RemoveProject, AddProject, Beside, vars
  <2> QED BY <2>1, OwnerUnmoved
<1> QED BY <1>1, <1>2, <1>3


-----------------------------------------------------------------------------
(* The first effect of a list is performed, and the others are left.       *)

LEMMA OpIs ==
  ASSUME SessionInv, op # Idle
  PROVE  /\ IsList(op.todo) /\ Len(op.todo) \in Nat /\ Len(op.todo) >= 1
         /\ Head(op.todo) = op.todo[1] /\ 1 \in 1..Len(op.todo)
<1>1. IsList(op.todo)
  BY DEF SessionInv, EffectsInv, Safe, Proper
<1>2. Len(op.todo) \in Nat /\ Len(op.todo) > 0
  BY <1>1 DEF IsList, SessionInv, CommandInv
<1>3. Len(op.todo) >= 1 /\ 1 \in 1..Len(op.todo)
  BY <1>2
<1>4. op.todo \in Seq({op.todo[i] : i \in 1..Len(op.todo)})
  BY <1>1, ListIsSeq
<1> QED BY <1>1, <1>2, <1>3, <1>4

LEMMA Advanced ==
  ASSUME SessionInv, op # Idle, op' = Rest, UNCHANGED owner
  PROVE  /\ CommandInv'
         /\ Len(op.todo) = 1 => op' = Idle
         /\ Len(op.todo) # 1 =>
              /\ Len(op.todo) > 1 /\ op'.todo = Tail(op.todo)
              /\ op'.project = op.project /\ op'.stopped = op.stopped
<1>1. CASE Len(op.todo) = 1
  <2>1. op' = Idle
    BY <1>1 DEF Rest
  <2> QED BY <1>1, <2>1, NothingLeft
<1>2. CASE Len(op.todo) # 1
  <2>1. /\ op = [kind |-> op.kind, todo |-> op.todo, repo |-> op.repo, project |-> op.project,
                 owner |-> op.owner, stopped |-> op.stopped]
        /\ op.stopped \in BOOLEAN
        /\ op.owner.stops \in Nat /\ op.owner.stops <= owner.stops
        /\ op.stopped => op.owner.stops < owner.stops
    BY DEF SessionInv, CommandInv
  <2>2. Len(op.todo) \in Nat /\ Len(op.todo) > 1
    <3>1. \A n \in Nat : n >= 1 /\ n # 1 => n > 1
      OBVIOUS
    <3> QED BY <1>2, <3>1, OpIs, Zenon
  <2>3. op' = [op EXCEPT !.todo = Tail(op.todo)]
    BY <1>2 DEF Rest
  <2>4. op' = [kind |-> op.kind, todo |-> Tail(op.todo), repo |-> op.repo,
               project |-> op.project, owner |-> op.owner, stopped |-> op.stopped]
    BY <2>1, <2>3
  <2>5. Len(Tail(op.todo)) = Len(op.todo) - 1
    BY <2>2, TailOfList DEF SessionInv, EffectsInv, Safe, Proper
  <2>6. Len(Tail(op.todo)) > 0
    BY <2>2, <2>5
  <2>7. /\ op'.kind = op.kind /\ op'.todo = Tail(op.todo) /\ op'.repo = op.repo
        /\ op'.project = op.project /\ op'.owner = op.owner /\ op'.stopped = op.stopped
    BY <2>4
  <2>8. CommandInv'
    BY <2>1, <2>4, <2>6, <2>7 DEF CommandInv
  <2> QED BY <1>2, <2>2, <2>7, <2>8
<1> QED BY <1>1, <1>2

(* What the effect performed has to leave for those after it.              *)
LEMMA TailSafe ==
  ASSUME SessionInv, op # Idle, Len(op.todo) > 1, op'.todo = Tail(op.todo),
         \A i \in 2..Len(op.todo) : \A s :
           /\ Saves(op.todo[i]) /\ s = op.todo[i].session /\ Has(s, "plan")
           /\ Retained(s) \/ Provides(op.todo[1], s)
           => Retained(s)',
         (\A i \in 2..Len(op.todo) : Ordinary(op.todo[i])) \/ Repairing(op.todo)',
         op.todo[1].do = "put" => \A i \in 2..Len(op.todo) :
           Asks(op.todo[i]) /\ Has(sess, "campaign") => Askable(op.todo, i - 1)',
         op.todo[1].do = "put" => UNCHANGED sess
  PROVE  Safe(op.todo)'
<1> DEFINE t == op.todo
           u == Tail(op.todo)
<1>1. /\ IsList(u) /\ Len(u) = Len(t) - 1 /\ Len(t) \in Nat
      /\ \A i \in 1..Len(u) : u[i] = t[i + 1]
  BY OpIs, TailOfList
<1>2. \A i \in 1..Len(u) : i + 1 \in 2..Len(t) /\ i + 1 \in 1..Len(t) /\ (i + 1) - 1 = i
  BY <1>1
<1>3. Safe(t)
  BY DEF SessionInv, EffectsInv
<1> HIDE DEF t, u
<1>4. Proper(op.todo)'
  <2>1. ASSUME NEW i \in 1..Len(u), NEW s, s = u[i].session, Saves(u[i]), Has(s, "plan")
        PROVE  Retained(s)' \/ \E j \in 1..i - 1 : Provides(u[j], s)
    <3>1. t[i + 1] = u[i] /\ i + 1 \in 1..Len(t) /\ i + 1 \in 2..Len(t)
      BY <1>1, <1>2
    <3>2. Backed(t, i + 1)
      BY <1>3, <2>1, <3>1 DEF Safe, Proper
    <3>3. Retained(s) \/ \E j \in 1..(i + 1) - 1 : Provides(t[j], s)
      BY <2>1, <3>1, <3>2 DEF Backed
    <3>4. Retained(s) \/ Provides(t[1], s) => Retained(s)'
      <4>1. Saves(op.todo[i + 1]) /\ s = op.todo[i + 1].session /\ i + 1 \in 2..Len(op.todo)
        BY <2>1, <3>1 DEF t
      <4> QED BY <2>1, <4>1 DEF t
    <3>5. ASSUME NEW j \in 1..(i + 1) - 1, Provides(t[j], s)
          PROVE  Provides(t[1], s) \/ \E k \in 1..i - 1 : Provides(u[k], s)
      <4>1. j = 1 \/ (j - 1 \in 1..i - 1 /\ j - 1 \in 1..Len(u) /\ (j - 1) + 1 = j)
        BY <1>1, <1>2
      <4>2. CASE j = 1
        BY <3>5, <4>2
      <4>3. CASE j - 1 \in 1..i - 1 /\ j - 1 \in 1..Len(u) /\ (j - 1) + 1 = j
        <5>1. u[j - 1] = t[j]
          BY <1>1, <4>3
        <5> QED BY <3>5, <4>3, <5>1
      <4> QED BY <4>1, <4>2, <4>3
    <3> QED BY <3>3, <3>4, <3>5
  <2>2. ASSUME NEW i \in 1..Len(u), Saves(u[i])
        PROVE  Bound(u[i].session) /\ (u[i].do = "save" => u[i].session.status # "COMPLETED")
    <3>1. t[i + 1] = u[i] /\ i + 1 \in 1..Len(t)
      BY <1>1, <1>2
    <3> QED BY <1>3, <2>2, <3>1 DEF Safe, Proper
  <2>3. op'.todo = u
    BY DEF u
  <2>4. ASSUME NEW i \in 1..Len(u), Saves(u[i]) PROVE Backed(op.todo, i)'
    <3>1. SUFFICES ASSUME NEW s, s = u[i].session, Has(s, "plan")
                   PROVE  Retained(s)' \/ \E j \in 1..i - 1 : Provides(u[j], s)
      BY <2>3 DEF Backed, Retained, OnDisk
    <3> QED BY <2>1, <2>4, <3>1
  <2> QED BY <1>1, <2>2, <2>3, <2>4 DEF Proper
<1>5. (\A i \in 1..Len(u) : Ordinary(u[i])) \/ Repairing(op.todo)'
  BY <1>1, <1>2 DEF t
<1>6. ASSUME NEW i \in 1..Len(u), Asks(u[i])
      PROVE  /\ \A j \in 1..i - 1 : u[j].do = "put"
             /\ Has(sess, "campaign")' => Askable(op.todo, i)'
  <2>1. t[i + 1] = u[i] /\ i + 1 \in 1..Len(t) /\ i + 1 \in 2..Len(t) /\ (i + 1) - 1 = i
    BY <1>1, <1>2
  <2>2. \A j \in 1..(i + 1) - 1 : t[j].do = "put"
    BY <1>3, <1>6, <2>1 DEF Safe
  <2>3. t[1].do = "put"
    BY <1>2, <2>2
  <2>4. \A j \in 1..i - 1 : u[j] = t[j + 1] /\ j + 1 \in 1..(i + 1) - 1
    BY <1>1
  <2>5. Has(sess, "campaign")' => Has(sess, "campaign")
    BY <2>3 DEF t, Has
  <2>6. Has(sess, "campaign") => Askable(op.todo, i)'
    BY <1>6, <2>1, <2>3 DEF t
  <2> QED BY <2>2, <2>4, <2>5, <2>6
<1>7. ASSUME NEW i \in 1..Len(u), Completes(u[i]) PROVE Last(u, i)
  <2>1. t[i + 1] = u[i] /\ i + 1 \in 1..Len(t)
    BY <1>1, <1>2
  <2>2. Last(t, i + 1)
    BY <1>3, <1>7, <2>1 DEF Safe
  <2>3. i + 1 = Len(t) /\ t[(i + 1) - 1] = Check("snapshot")
    BY <2>2 DEF Last
  <2>4. i > 1 => u[i - 1] = t[i]
    <3>1. i > 1 => i - 1 \in 1..Len(u) /\ (i - 1) + 1 = i
      BY <1>1
    <3> QED BY <1>1, <3>1
  <2> QED BY <1>1, <1>2, <2>3, <2>4 DEF Last
<1>8. op'.todo = u
  BY DEF u
<1> QED BY <1>4, <1>5, <1>6, <1>7, <1>8 DEF Safe

(* A completion is next once the snapshot was taken again.                 *)
LEMMA TailConfirmed ==
  ASSUME SessionInv, op # Idle, Len(op.todo) > 1, op'.todo = Tail(op.todo),
         op.todo[1] # Check("snapshot") \/ (op'.project.active /\ ~op'.stopped)
  PROVE  Confirmed'
<1>1. /\ Len(op'.todo) = Len(op.todo) - 1 /\ Len(op.todo) \in Nat
      /\ \A i \in 1..Len(op'.todo) : op'.todo[i] = op.todo[i + 1]
  BY OpIs, TailOfList
<1>2. ASSUME Len(op'.todo) = 1, Completes(op'.todo[1])
      PROVE  op.todo[1] = Check("snapshot")
  <2>1. Len(op.todo) = 2 /\ op'.todo[1] = op.todo[2] /\ 2 \in 1..Len(op.todo)
    BY <1>1, <1>2
  <2>2. Last(op.todo, 2)
    BY <1>2, <2>1 DEF SessionInv, EffectsInv, Safe
  <2> QED BY <2>2 DEF Last
<1> QED BY <1>2 DEF Confirmed

LEMMA UsedGrows ==
  ASSUME Retries \in Nat, DOMAIN disk \subseteq DOMAIN disk'
  PROVE  /\ Used \subseteq Used' /\ Cardinality(Used) \in Nat /\ Cardinality(Used') \in Nat
         /\ Cardinality(Used) <= Cardinality(Used')
         /\ \A n \in Used' \ Used : Cardinality(Used) < Cardinality(Used')
<1>1. IsFiniteSet(Slots)
  BY FS_Interval DEF Slots
<1>2. Used' \subseteq Slots /\ Used \subseteq Slots /\ Used \subseteq Used'
  BY DEF Used, Slots
<1>3. IsFiniteSet(Used') /\ IsFiniteSet(Used)
  BY <1>1, <1>2, FS_Subset
<1>4. Cardinality(Used) \in Nat /\ Cardinality(Used') \in Nat
  BY <1>3, FS_CardinalityType
<1>5. /\ Cardinality(Used) <= Cardinality(Used')
      /\ Cardinality(Used) = Cardinality(Used') => Used = Used'
  BY <1>2, <1>3, FS_Subset
<1>6. ASSUME NEW n \in Used' \ Used PROVE Cardinality(Used) < Cardinality(Used')
  <2>1. Used # Used'
    BY <1>6
  <2> QED BY <1>4, <1>5, <2>1
<1> QED BY <1>2, <1>4, <1>5, <1>6


-----------------------------------------------------------------------------
(* An artifact is written.                                                 *)

LEMMA DiskGrows ==
  ASSUME \A x \in DOMAIN disk : x \in DOMAIN disk' /\ disk'[x] = disk[x]
  PROVE  \A s : Retained(s) => Retained(s)'
BY DEF Retained, OnDisk

LEMMA RefusedKeeps ==
  ASSUME SessionInv, NEW name, op' = Idle, UNCHANGED <<owner, sess, disk>>,
         seen' = [seen EXCEPT !.refused = seen.refused \cup {name}]
  PROVE  SessionInv'
<1> DEFINE refused == seen.refused \cup {name}
<1>1. seen = [planner |-> seen.planner, provider |-> seen.provider, refused |-> seen.refused]
  BY DEF SessionInv, Shapes
<1>2. seen' = [seen EXCEPT !.refused = refused]
  OBVIOUS
<1> HIDE DEF refused
<1>3. seen \in [planner : {seen.planner}, provider : {seen.provider}, refused : {seen.refused}]
  BY <1>1
<1>4. /\ seen' = [planner |-> seen'.planner, provider |-> seen'.provider,
                  refused |-> seen'.refused]
      /\ seen'.provider = seen.provider
  BY <1>2, <1>3
<1>5. Shapes'
  BY <1>4 DEF SessionInv, Shapes
<1>6. Bound(sess)' /\ (seen.provider <= Cardinality(Used))'
  BY <1>4 DEF SessionInv, Used
<1>7. PlanRetained'
  BY DEF SessionInv, PlanRetained, OnDisk
<1> QED BY <1>5, <1>6, <1>7, NothingLeft DEF SessionInv

(* The audit is written by a repair alone, before it replaces the plan.    *)
LEMMA AuditWritten ==
  ASSUME SessionInv, op # Idle, op.todo[1].do = "put", op.todo[1].name = Audit
  PROVE  /\ Len(op.todo) = 3 /\ RepairOf(op.todo[1].content)
         /\ op.todo = FreshRepair(sess, op.todo[1].content)
<1>1. ~Ordinary(op.todo[1])
  BY DEF Ordinary
<1>2. Repairing(op.todo)
  BY <1>1, OpIs DEF SessionInv, EffectsInv, Safe
<1>3. ASSUME Len(op.todo) = 2, op.todo = Tail(FreshRepair(sess, disk[Audit])) PROVE FALSE
  <2>1. op.todo[1].do = "swap"
    BY <1>3 DEF FreshRepair, Swap, Put, Save
  <2> QED BY <2>1
<1> QED BY <1>2, <1>3 DEF Repairing

LEMMA RepairFirst ==
  ASSUME NEW s, NEW a, NEW t, t = FreshRepair(s, a)
  PROVE  /\ t[1].do = "put" /\ t[1].name = Audit /\ t[1].content = a
         /\ t[2].do = "swap" /\ t[2].name = s.plan /\ t[2].content = a.new
         /\ t[2].backup = <<"plan-invalid", 2>>
         /\ t[3].do = "save" /\ t[3].session = Repaired(s, a)
BY DEF FreshRepair, Put, Swap, Save

LEMMA PutKeeps ==
  ASSUME SessionInv, op # Idle, PutEffect(op.todo[1]), Same PROVE SessionInv'
<1> DEFINE e == op.todo[1]
<1>0. e.do = "put" /\ UNCHANGED <<owner, sess>> /\ Retries \in Nat
  BY SessionBounds DEF PutEffect, Same
<1>1. CASE e.name \in DOMAIN disk /\ disk[e.name] # e.content
  <2>1. /\ op' = Idle /\ UNCHANGED disk
        /\ seen' = [seen EXCEPT !.refused = seen.refused \cup {e.name[1]}]
    BY <1>1 DEF PutEffect
  <2> QED BY <1>0, <2>1, RefusedKeeps
<1>2. CASE ~(e.name \in DOMAIN disk /\ disk[e.name] # e.content)
  <2> DEFINE w == With(disk, e.name, e.content)
  <2>1. op' = Rest /\ disk' = w /\ UNCHANGED seen
    BY <1>2 DEF PutEffect
  <2>2. /\ DOMAIN w = DOMAIN disk \cup {e.name} /\ w[e.name] = e.content
        /\ \A k \in DOMAIN disk \ {e.name} : w[k] = disk[k]
        /\ w = [k \in DOMAIN w |-> w[k]]
    <3>1. Grown(w, disk, e.name, e.content)
      BY WithIs
    <3> HIDE DEF w
    <3> QED BY <3>1 DEF Grown
  <2> HIDE DEF w
  <2>3. /\ \A x \in DOMAIN disk : x \in DOMAIN disk' /\ disk'[x] = disk[x]
        /\ DOMAIN disk' = DOMAIN disk \cup {e.name} /\ disk'[e.name] = e.content
        /\ disk' = [k \in DOMAIN disk' |-> disk'[k]]
    BY <1>2, <2>1, <2>2
  <2>4. \A s : Retained(s) => Retained(s)'
    BY <2>3, DiskGrows
  <2>5. Shapes'
    <3>1. Audit \in DOMAIN disk' => IsPlan(disk'[Audit].new)
      <4>1. CASE Audit \in DOMAIN disk
        BY <2>3, <4>1 DEF SessionInv, Shapes
      <4>2. CASE Audit \notin DOMAIN disk
        <5>1. ASSUME Audit \in DOMAIN disk' PROVE IsPlan(disk'[Audit].new)
          <6>1. e.name = Audit
            BY <2>3, <4>2, <5>1
          <6>2. RepairOf(e.content)
            BY <1>0, <6>1, AuditWritten
          <6> QED BY <2>3, <6>1, <6>2 DEF RepairOf
        <5> QED BY <5>1
      <4> QED BY <4>1, <4>2
    <3> QED BY <1>0, <2>1, <2>3, <3>1 DEF SessionInv, Shapes
  <2>6. Bound(sess)'
    BY <1>0 DEF SessionInv
  <2>7. PlanRetained'
    <3>1. Has(sess, "plan") => Retained(sess)
      BY RecordSavable DEF Savable
    <3>2. Has(sess, "plan") => \A s : s = sess => Retained(s)'
      BY <2>4, <3>1
    <3> QED BY <1>0, <3>2 DEF PlanRetained, Retained, OnDisk
  <2>8. /\ Used \subseteq Used' /\ Cardinality(Used) \in Nat /\ Cardinality(Used') \in Nat
        /\ Cardinality(Used) <= Cardinality(Used')
        /\ \A n \in Used' \ Used : Cardinality(Used) < Cardinality(Used')
    BY <1>0, <2>3, UsedGrows
  <2>9. seen.provider \in Nat /\ seen.provider <= Cardinality(Used)
    BY DEF SessionInv, Shapes
  <2>10. (seen.provider <= Cardinality(Used))'
    BY <2>1, <2>8, <2>9
  <2>11. CommandInv'
    BY <1>0, <2>1, Advanced
  <2>12. CASE Len(op.todo) = 1
    BY <1>0, <2>1, <2>5, <2>6, <2>7, <2>10, <2>12, Advanced, NothingLeft DEF SessionInv
  <2>13. CASE Len(op.todo) # 1
    <3>1. Len(op.todo) > 1 /\ op'.todo = Tail(op.todo)
      BY <1>0, <2>1, <2>13, Advanced
    <3>2. (\A i \in 2..Len(op.todo) : Ordinary(op.todo[i])) \/ Repairing(op.todo)'
      <4>0. Len(op.todo) \in Nat
        BY OpIs
      <4>1. CASE \A i \in 1..Len(op.todo) : Ordinary(op.todo[i])
        BY <4>0, <4>1
      <4>2. CASE Repairing(op.todo)
        <5>1. e.name = Audit
          <6>1. CASE op.todo = FreshRepair(sess, e.content)
            BY <6>1, RepairFirst
          <6>2. CASE op.todo = Tail(FreshRepair(sess, disk[Audit]))
            <7>1. e.do = "swap"
              BY <6>2 DEF FreshRepair, Put, Swap, Save
            <7> QED BY <1>0, <7>1
          <6> QED BY <4>2, <6>1, <6>2 DEF Repairing
        <5>2. /\ Len(op.todo) = 3 /\ RepairOf(e.content)
              /\ op.todo = FreshRepair(sess, e.content)
          BY <1>0, <5>1, AuditWritten
        <5>3. disk'[Audit] = e.content /\ Audit \in DOMAIN disk'
          BY <2>3, <5>1
        <5>4. Len(op'.todo) = 2
          <6>1. Len(Tail(op.todo)) = Len(op.todo) - 1
            BY <3>1, OpIs, TailOfList
          <6> QED BY <3>1, <5>2, <6>1
        <5>5. RepairOf(disk[Audit])'
          BY <1>0, <2>3, <5>2, <5>3 DEF RepairOf, OnDisk, Has
        <5>6. op'.todo = Tail(FreshRepair(sess', disk'[Audit]))
          BY <1>0, <3>1, <5>2, <5>3
        <5> QED BY <5>3, <5>4, <5>5, <5>6 DEF Repairing
      <4> QED BY <4>1, <4>2 DEF SessionInv, EffectsInv, Safe
    <3>3. ASSUME NEW i \in 2..Len(op.todo), Asks(op.todo[i]), Has(sess, "campaign")
          PROVE  Askable(op.todo, i - 1)'
      <4>0. /\ Len(op.todo) \in Nat /\ i \in 1..Len(op.todo)
            /\ IsList(Tail(op.todo)) /\ Len(Tail(op.todo)) = Len(op.todo) - 1
            /\ \A j \in 1..Len(Tail(op.todo)) : Tail(op.todo)[j] = op.todo[j + 1]
        BY <3>1, OpIs, TailOfList
      <4>1. /\ Askable(op.todo, i)
            /\ \A j \in 1..i - 1 : op.todo[j].do = "put"
        BY <3>3, <4>0 DEF SessionInv, EffectsInv, Safe
      <4>2. PICK n \in Slots \ Used : op.todo[i - 1].name = <<"started", n>>
        BY <4>1 DEF Askable
      <4>3. \A j \in 1..i - 2 : op.todo[j].name[1] = "legacy"
        BY <4>1 DEF Askable
      <4>4. \A j \in (1..Len(op'.todo)) \ {i - 1} : ~Asks(op'.todo[j])
        <5>1. \A j \in (1..Len(op.todo)) \ {i} : ~Asks(op.todo[j])
          BY <4>1 DEF Askable
        <5>2. \A j \in (1..Len(op'.todo)) \ {i - 1} :
                j + 1 \in (1..Len(op.todo)) \ {i} /\ op'.todo[j] = op.todo[j + 1]
          BY <3>1, <4>0
        <5> QED BY <5>1, <5>2
      <4>5. CASE i = 2
        <5>1. e.name = <<"started", n>>
          BY <4>2, <4>5
        <5>2. n \in Used' \ Used
          BY <2>3, <4>2, <5>1 DEF Used, Slots
        <5>3. seen'.provider < Cardinality(Used')
          <6>1. Cardinality(Used) < Cardinality(Used')
            BY <2>8, <5>2
          <6> QED BY <2>1, <2>8, <2>9, <6>1
        <5>4. i - 1 = 1
          BY <4>5
        <5> QED BY <4>4, <5>3, <5>4 DEF Askable
      <4>6. CASE i # 2
        <5>1. i - 1 \in 1..Len(op'.todo) /\ i - 1 # 1 /\ (i - 1) - 1 \in 1..Len(op'.todo)
          BY <3>1, <4>0, <4>6
        <5>2. op'.todo[(i - 1) - 1] = op.todo[i - 1]
          BY <3>1, <4>0, <5>1
        <5>3. e.name[1] = "legacy"
          <6>1. 1 \in 1..i - 2
            BY <4>6
          <6> QED BY <4>3, <6>1
        <5>4. Used' = Used
          <6>1. \A k \in Slots : e.name # <<"started", k>>
            BY <5>3
          <6> QED BY <2>3, <6>1 DEF Used, Slots
        <5>5. \A j \in 1..(i - 1) - 2 : op'.todo[j] = op.todo[j + 1] /\ j + 1 \in 1..i - 2
          BY <3>1, <4>0
        <5>6. n \in Slots' \ Used'
          BY <4>2, <5>4 DEF Slots
        <5>7. \A j \in 1..(i - 1) - 2 : op'.todo[j].name[1] = "legacy"
          BY <4>3, <5>5
        <5>8. \E k \in (Slots \ Used)' : op'.todo[(i - 1) - 1].name = <<"started", k>>
          BY <4>2, <5>2, <5>6
        <5> QED BY <4>4, <5>1, <5>7, <5>8 DEF Askable
      <4> QED BY <4>5, <4>6
    <3>4. \A i \in 2..Len(op.todo) : \A s :
             /\ Saves(op.todo[i]) /\ s = op.todo[i].session /\ Has(s, "plan")
             /\ Retained(s) \/ Provides(op.todo[1], s)
             => Retained(s)'
      <4>1. \A s : Provides(e, s) => Retained(s)'
        BY <2>3 DEF Provides, Retained, OnDisk
      <4> QED BY <2>4, <4>1
    <3>5. Safe(op.todo)'
      BY <1>0, <3>1, <3>2, <3>3, <3>4, TailSafe
    <3>6. Confirmed'
      <4>1. op.todo[1] # Check("snapshot")
        BY <1>0 DEF Check
      <4> QED BY <3>1, <4>1, TailConfirmed
    <3> QED BY <2>5, <2>6, <2>7, <2>10, <2>11, <3>5, <3>6 DEF SessionInv, EffectsInv
  <2> QED BY <2>12, <2>13
<1> QED BY <1>1, <1>2


-----------------------------------------------------------------------------
(* An artifact is replaced.                                                *)

(* A swap is of the planning origin, or the second effect of a repair.     *)
LEMMA SwapIs ==
  ASSUME SessionInv, op # Idle, op.todo[1].do = "swap"
  PROVE  \/ /\ \A i \in 1..Len(op.todo) : Ordinary(op.todo[i])
            /\ op.todo[1].name = OriginName /\ op.todo[1].backup[1] = "origin-before"
         \/ /\ Len(op.todo) = 2 /\ Audit \in DOMAIN disk /\ RepairOf(disk[Audit])
            /\ op.todo[1].name = sess.plan /\ op.todo[1].content = disk[Audit].new
            /\ op.todo[1].backup = <<"plan-invalid", 2>>
            /\ op.todo[2].do = "save" /\ op.todo[2].session = Repaired(sess, disk[Audit])
            /\ op.todo = Tail(FreshRepair(sess, disk[Audit]))
<1>1. CASE \A i \in 1..Len(op.todo) : Ordinary(op.todo[i])
  BY <1>1, OpIs DEF Ordinary
<1>2. CASE Repairing(op.todo)
  <2>1. ASSUME op.todo = FreshRepair(sess, op.todo[1].content) PROVE FALSE
    BY <2>1, RepairFirst
  <2>2. /\ Len(op.todo) = 2 /\ Audit \in DOMAIN disk /\ RepairOf(disk[Audit])
        /\ op.todo = Tail(FreshRepair(sess, disk[Audit]))
    BY <1>2, <2>1 DEF Repairing
  <2>3. /\ op.todo[1].name = sess.plan /\ op.todo[1].content = disk[Audit].new
        /\ op.todo[1].backup = <<"plan-invalid", 2>>
        /\ op.todo[2].do = "save" /\ op.todo[2].session = Repaired(sess, disk[Audit])
    BY <2>2 DEF FreshRepair, Put, Swap, Save
  <2> QED BY <2>2, <2>3
<1> QED BY <1>1, <1>2 DEF SessionInv, EffectsInv, Safe

(* The old bytes are kept aside: nothing that was on disk is lost.         *)
LEMMA BackupKeeps ==
  ASSUME SessionInv, op # Idle, op.todo[1].do = "swap",
         op.todo[1].backup \notin DOMAIN disk,
         Grown(disk', disk, op.todo[1].backup, disk[op.todo[1].name]),
         UNCHANGED <<owner, sess, op, seen>>
  PROVE  SessionInv'
<1> DEFINE backup == op.todo[1].backup
<1>1. /\ \A x \in DOMAIN disk : x \in DOMAIN disk' /\ disk'[x] = disk[x]
      /\ DOMAIN disk' = DOMAIN disk \cup {backup}
      /\ disk' = [k \in DOMAIN disk' |-> disk'[k]]
  BY DEF Grown
<1>2. backup # Audit /\ \A n : backup # <<"started", n>>
  BY SwapIs DEF Audit
<1> HIDE DEF backup
<1>3. Used' = Used
  BY <1>1, <1>2 DEF Used, Slots
<1>4. \A s : Retained(s) => Retained(s)'
  BY <1>1, DiskGrows
<1>5. Audit \in DOMAIN disk' => Audit \in DOMAIN disk /\ disk'[Audit] = disk[Audit]
  BY <1>1, <1>2
<1>6. Shapes'
  BY <1>1, <1>5 DEF SessionInv, Shapes
<1>7. CommandInv'
  BY DEF SessionInv, CommandInv
<1>8. PlanRetained'
  <2>1. Has(sess, "plan") => \A s : s = sess => Retained(s)'
    BY <1>4, RecordSavable DEF Savable
  <2> QED BY <2>1 DEF PlanRetained, Retained, OnDisk
<1>9. Safe(op.todo)'
  <2> DEFINE t == op.todo
  <2>1. op'.todo = t /\ sess' = sess /\ seen' = seen
    OBVIOUS
  <2>2. Safe(t)
    BY DEF SessionInv, EffectsInv
  <2> HIDE DEF t
  <2>3. ASSUME NEW i \in 1..Len(t), Backed(t, i) PROVE Backed(op.todo, i)'
    <3>1. \A s : s = t[i].session /\ Has(s, "plan") =>
            Retained(s)' \/ \E j \in 1..i - 1 : Provides(t[j], s)
      BY <1>4, <2>3 DEF Backed
    <3> QED BY <2>1, <3>1 DEF Backed, Retained, OnDisk
  <2>4. Proper(op.todo)'
    <3>1. IsList(t) /\ \A i \in 1..Len(t) : Saves(t[i]) =>
               /\ Bound(t[i].session) /\ Backed(t, i)
               /\ t[i].do = "save" => t[i].session.status # "COMPLETED"
      BY <2>2 DEF Safe, Proper
    <3> QED BY <2>1, <2>3, <3>1 DEF Proper
  <2>5. (\A i \in 1..Len(t) : Ordinary(t[i])) \/ Repairing(op.todo)'
    <3>1. CASE Repairing(t)
      <4>1. /\ Len(t) = 2 /\ Audit \in DOMAIN disk /\ RepairOf(disk[Audit])
            /\ t = Tail(FreshRepair(sess, disk[Audit]))
        <5>1. ASSUME t = FreshRepair(sess, t[1].content) PROVE FALSE
          BY <5>1, RepairFirst DEF t
        <5> QED BY <3>1, <5>1 DEF Repairing
      <4>2. disk'[Audit] = disk[Audit] /\ Audit \in DOMAIN disk'
        BY <1>1, <4>1
      <4>3. RepairOf(disk[Audit])'
        BY <1>1, <4>1, <4>2 DEF RepairOf, OnDisk, Has
      <4> QED BY <2>1, <4>1, <4>2, <4>3 DEF Repairing
    <3> QED BY <2>2, <3>1 DEF Safe
  <2>6. ASSUME NEW i \in 1..Len(t), Asks(t[i]), Has(sess, "campaign")
        PROVE  Askable(op.todo, i)'
    <3>1. Askable(t, i)
      BY <2>2, <2>6 DEF Safe
    <3> QED BY <1>3, <2>1, <3>1 DEF Askable, Slots
  <2>7. \A i \in 1..Len(t) : /\ Asks(t[i]) => \A j \in 1..i - 1 : t[j].do = "put"
                             /\ Completes(t[i]) => Last(t, i)
    BY <2>2 DEF Safe
  <2>8. Has(sess, "campaign")' <=> Has(sess, "campaign")
    BY <2>1 DEF Has
  <2> QED BY <2>1, <2>4, <2>5, <2>6, <2>7, <2>8 DEF Safe
<1>10. Confirmed'
  BY DEF SessionInv, EffectsInv, Confirmed
<1>11. Bound(sess)' /\ (seen.provider <= Cardinality(Used))'
  BY <1>3 DEF SessionInv
<1> QED BY <1>6, <1>7, <1>8, <1>9, <1>10, <1>11 DEF SessionInv, EffectsInv


(* The old bytes are kept aside already and the new ones take their place. *)
LEMMA ReplaceKeeps ==
  ASSUME SessionInv, op # Idle, op.todo[1].do = "swap", op.todo[1].backup \in DOMAIN disk,
         disk[op.todo[1].backup] = disk[op.todo[1].name],
         disk' = [disk EXCEPT ![op.todo[1].name] = op.todo[1].content],
         op' = Rest, UNCHANGED <<owner, sess, seen>>
  PROVE  SessionInv'
<1> DEFINE name == op.todo[1].name
           content == op.todo[1].content
           backup == op.todo[1].backup
<1>1. /\ disk' = [disk EXCEPT ![name] = content]
      /\ disk = [n \in DOMAIN disk |-> disk[n]]
  BY DEF SessionInv, Shapes
<1> HIDE DEF name, content, backup
<1>2. /\ DOMAIN disk' = DOMAIN disk
      /\ disk' = [n \in DOMAIN disk' |-> disk'[n]]
      /\ \A x \in DOMAIN disk \ {name} : disk'[x] = disk[x]
      /\ name \in DOMAIN disk => disk'[name] = content
  BY <1>1
<1>3. Used' = Used
  BY <1>2 DEF Used, Slots
<1>4. name # Audit
  <2>1. Has(sess, "plan") => sess.plan # Audit
    BY DEF SessionInv, Bound, PlanKinds, Audit
  <2>2. name = OriginName \/ (Has(sess, "plan") /\ name = sess.plan)
    BY SwapIs DEF name, RepairOf
  <2> QED BY <2>1, <2>2 DEF OriginName, Audit
<1>5. Shapes'
  BY <1>2, <1>4 DEF SessionInv, Shapes
<1>6. CommandInv'
  BY Advanced
<1>7. Bound(sess)' /\ (seen.provider <= Cardinality(Used))'
  BY <1>3 DEF SessionInv
<1>8. op.todo[1] # Check("snapshot") /\ op.todo[1].do # "put"
  BY DEF Check
<1>9. Len(op.todo) # 1 => Len(op.todo) > 1 /\ op'.todo = Tail(op.todo)
  BY Advanced
<1>10. Len(op.todo) # 1 => Confirmed'
  BY <1>8, <1>9, TailConfirmed
<1>11. CASE /\ \A i \in 1..Len(op.todo) : Ordinary(op.todo[i])
            /\ op.todo[1].name = OriginName /\ op.todo[1].backup[1] = "origin-before"
  <2>1. name = OriginName
    BY <1>11 DEF name
  <2>2. \A s : s.plan[1] \in PlanKinds /\ Retained(s) => Retained(s)'
    <3>1. \A x, c : x # name /\ OnDisk(x, c) => OnDisk(x, c)'
      BY <1>2 DEF OnDisk
    <3>2. \A s : s.plan[1] \in PlanKinds => s.plan # name
      BY <2>1 DEF PlanKinds, OriginName
    <3>3. <<"plan-invalid", 2>> # name
      BY <2>1 DEF OriginName
    <3>4. Audit \in DOMAIN disk => Audit \in DOMAIN disk' /\ disk'[Audit] = disk[Audit]
      BY <1>2, <1>4
    <3>5. ASSUME NEW s, s.plan[1] \in PlanKinds, Retained(s) PROVE Retained(s)'
      <4>1. CASE OnDisk(s.plan, s.hash.plan)
        BY <3>1, <3>2, <3>5, <4>1 DEF Retained
      <4>2. CASE /\ Audit \in DOMAIN disk /\ s.hash.plan = disk[Audit].old
                 /\ OnDisk(s.plan, disk[Audit].new)
                 /\ OnDisk(<<"plan-invalid", 2>>, disk[Audit].old)
        <5>1. /\ OnDisk(s.plan, disk[Audit].new)'
              /\ OnDisk(<<"plan-invalid", 2>>, disk[Audit].old)'
          BY <3>2, <3>3, <3>4, <3>5, <4>2, <1>2 DEF OnDisk
        <5> QED BY <3>4, <4>2, <5>1 DEF Retained
      <4> QED BY <3>5, <4>1, <4>2 DEF Retained
    <3> QED BY <3>5
  <2>3. PlanRetained'
    <3>1. Has(sess, "plan") => \A s : s = sess => Retained(s)'
      BY <2>2, RecordSavable DEF Savable, Bound
    <3> QED BY <3>1 DEF PlanRetained, Retained, OnDisk
  <2>4. CASE Len(op.todo) = 1
    BY <1>5, <1>6, <1>7, <2>3, <2>4, Advanced, NothingLeft DEF SessionInv
  <2>5. CASE Len(op.todo) # 1
    <3>1. \A i \in 2..Len(op.todo) : \A s :
             /\ Saves(op.todo[i]) /\ s = op.todo[i].session /\ Has(s, "plan")
             /\ Retained(s) \/ Provides(op.todo[1], s)
             => Retained(s)'
      <4> SUFFICES ASSUME NEW i \in 2..Len(op.todo), NEW s, Saves(op.todo[i]),
                          s = op.todo[i].session, Has(s, "plan"),
                          Retained(s) \/ Provides(op.todo[1], s)
                   PROVE  Retained(s)'
        OBVIOUS
      <4>1. i \in 1..Len(op.todo)
        BY OpIs
      <4>2. Bound(s)
        BY <4>1 DEF SessionInv, EffectsInv, Safe, Proper
      <4>3. s.plan[1] \in PlanKinds
        BY <4>2 DEF Bound
      <4>4. ~Provides(op.todo[1], s)
        BY <2>1, <4>3 DEF Provides, name, OriginName, PlanKinds
      <4> QED BY <2>2, <4>3, <4>4
    <3>2. \A i \in 2..Len(op.todo) : Ordinary(op.todo[i])
      BY <1>11, OpIs
    <3>3. Safe(op.todo)'
      BY <1>8, <1>9, <2>5, <3>1, <3>2, TailSafe
    <3> QED BY <1>5, <1>6, <1>7, <1>10, <2>3, <2>5, <3>3 DEF SessionInv, EffectsInv
  <2> QED BY <2>4, <2>5
<1>12. CASE /\ Len(op.todo) = 2 /\ Audit \in DOMAIN disk /\ RepairOf(disk[Audit])
            /\ op.todo[1].name = sess.plan /\ op.todo[1].content = disk[Audit].new
            /\ op.todo[1].backup = <<"plan-invalid", 2>>
            /\ op.todo[2].do = "save" /\ op.todo[2].session = Repaired(sess, disk[Audit])
            /\ op.todo = Tail(FreshRepair(sess, disk[Audit]))
  <2> DEFINE a == disk[Audit]
  <2>1. /\ name = sess.plan /\ content = a.new /\ backup = <<"plan-invalid", 2>>
        /\ Has(sess, "plan") /\ a.old = sess.hash.plan
        /\ sess.plan \in DOMAIN disk /\ disk[sess.plan] = a.old
        /\ backup \in DOMAIN disk /\ disk[backup] = disk[name]
    BY <1>12 DEF name, content, backup, RepairOf, OnDisk
  <2>2. backup # name
    BY <2>1 DEF SessionInv, Bound, PlanKinds
  <2>3. disk'[Audit] = a /\ Audit \in DOMAIN disk'
    BY <1>2, <1>4, <1>12
  <2>4. /\ sess.plan \in DOMAIN disk' /\ disk'[sess.plan] = a.new
        /\ backup \in DOMAIN disk' /\ disk'[backup] = a.old
    BY <1>2, <2>1, <2>2
  <2> HIDE DEF a
  <2>5. PlanRetained'
    BY <2>1, <2>3, <2>4 DEF PlanRetained, OnDisk
  <2>6. Len(op.todo) # 1 /\ \A i \in 2..Len(op.todo) : i = 2
    BY <1>12
  <2>7. Has(op.todo[2].session, "plan") /\ op.todo[2].session.plan = sess.plan
        /\ op.todo[2].session.hash.plan = a.new
    <3>1. IsSession(sess)
      BY DEF SessionInv, Bound
    <3>2. op.todo[2].session = Repaired(sess, a)
      BY <1>12 DEF a
    <3> QED BY <3>1, <3>2, RepairedIs
  <2>8. \A s : s = op.todo[2].session => Retained(s)'
    BY <2>4, <2>7 DEF Retained, OnDisk
  <2>9. Ordinary(op.todo[2])
    BY <1>12 DEF Ordinary
  <2>10. Safe(op.todo)'
    <3>1. \A i \in 2..Len(op.todo) : \A s :
             /\ Saves(op.todo[i]) /\ s = op.todo[i].session /\ Has(s, "plan")
             /\ Retained(s) \/ Provides(op.todo[1], s)
             => Retained(s)'
      BY <2>6, <2>8
    <3>2. \A i \in 2..Len(op.todo) : Ordinary(op.todo[i])
      BY <2>6, <2>9
    <3> QED BY <1>8, <1>9, <2>6, <3>1, <3>2, TailSafe
  <2> QED BY <1>5, <1>6, <1>7, <1>10, <2>5, <2>6, <2>10 DEF SessionInv, EffectsInv
<1> QED BY <1>11, <1>12, SwapIs


LEMMA SwapKeeps ==
  ASSUME SessionInv, op # Idle, SwapEffect(op.todo[1]), Same PROVE SessionInv'
<1> DEFINE e == op.todo[1]
<1>0. e.do = "swap" /\ UNCHANGED <<owner, sess>>
  BY DEF SwapEffect, Same
<1>1. CASE e.backup \notin DOMAIN disk
  <2> DEFINE w == With(disk, e.backup, disk[e.name])
  <2>1. disk' = w /\ UNCHANGED <<op, seen>>
    BY <1>1 DEF SwapEffect
  <2>2. Grown(w, disk, e.backup, disk[e.name])
    BY WithIs
  <2> HIDE DEF w
  <2>3. Grown(disk', disk, e.backup, disk[e.name])
    BY <2>1, <2>2 DEF Grown
  <2> QED BY <1>0, <1>1, <2>1, <2>3, BackupKeeps
<1>2. CASE e.backup \in DOMAIN disk /\ disk[e.backup] = disk[e.name]
  <2>1. /\ disk' = [disk EXCEPT ![e.name] = e.content] /\ op' = Rest /\ UNCHANGED seen
    BY <1>2 DEF SwapEffect
  <2> QED BY <1>0, <1>2, <2>1, ReplaceKeeps
<1>3. CASE e.backup \in DOMAIN disk /\ disk[e.backup] # disk[e.name]
  <2>1. /\ op' = Idle /\ UNCHANGED disk
        /\ seen' = [seen EXCEPT !.refused = seen.refused \cup {e.backup[1]}]
    BY <1>3 DEF SwapEffect
  <2> QED BY <1>0, <2>1, RefusedKeeps
<1> QED BY <1>1, <1>2, <1>3

-----------------------------------------------------------------------------
(* The other effects leave the artifacts as they are.                      *)

LEMMA OrdinaryRest ==
  ASSUME SessionInv, op # Idle, op.todo[1].do \notin {"put", "swap"}
  PROVE  \A i \in 2..Len(op.todo) : Ordinary(op.todo[i])
<1>1. ASSUME Repairing(op.todo) PROVE FALSE
  <2>1. CASE op.todo = FreshRepair(sess, op.todo[1].content)
    BY <2>1, RepairFirst
  <2>2. CASE op.todo = Tail(FreshRepair(sess, disk[Audit]))
    <3>1. op.todo[1].do = "swap"
      BY <2>2 DEF FreshRepair, Put, Swap, Save
    <3> QED BY <3>1
  <2> QED BY <1>1, <2>1, <2>2 DEF Repairing
<1> QED BY <1>1, OpIs DEF SessionInv, EffectsInv, Safe

(* The list goes on, or the command ends, and the disk is the same.        *)
LEMMA GoneOn ==
  ASSUME SessionInv, op # Idle, op.todo[1].do \notin {"put", "swap"},
         op' = Rest, UNCHANGED <<owner, disk>>,
         op.todo[1] = Check("snapshot") => op.project.active /\ ~op.stopped
  PROVE  CommandInv' /\ EffectsInv'
<1>1. CommandInv'
  BY Advanced
<1>2. CASE Len(op.todo) = 1
  BY <1>2, Advanced, NothingLeft
<1>3. CASE Len(op.todo) # 1
  <2>1. /\ Len(op.todo) > 1 /\ op'.todo = Tail(op.todo)
        /\ op'.project = op.project /\ op'.stopped = op.stopped
    BY <1>3, Advanced
  <2>2. \A i \in 2..Len(op.todo) : \A s :
           /\ Saves(op.todo[i]) /\ s = op.todo[i].session /\ Has(s, "plan")
           /\ Retained(s) \/ Provides(op.todo[1], s)
           => Retained(s)'
    <3>1. \A s : Retained(s) => Retained(s)'
      BY DiskGrows
    <3> QED BY <3>1 DEF Provides
  <2>3. Safe(op.todo)'
    BY <2>1, <2>2, OrdinaryRest, TailSafe
  <2>4. Confirmed'
    BY <2>1, TailConfirmed
  <2> QED BY <1>1, <2>3, <2>4 DEF EffectsInv
<1> QED BY <1>2, <1>3

LEMMA SaveKeeps ==
  ASSUME SessionInv, op # Idle, SaveEffect(op.todo[1]) \/ CommitEffect(op.todo[1]), Same
  PROVE  SessionInv'
<1>1. /\ Saves(op.todo[1]) /\ op.todo[1].do \notin {"put", "swap"}
      /\ op.todo[1] # Check("snapshot")
      /\ op' = Rest /\ UNCHANGED <<owner, disk, seen>>
      /\ sess' = op.todo[1].session \/ sess' = sess
  BY DEF SaveEffect, CommitEffect, Saves, Same, Check
<1>2. CommandInv' /\ EffectsInv'
  BY <1>1, GoneOn
<1>3. Savable(op.todo[1].session)
  <2>1. Bound(op.todo[1].session) /\ Backed(op.todo, 1)
    BY <1>1, OpIs DEF SessionInv, EffectsInv, Safe, Proper
  <2> QED BY <2>1 DEF Savable, Backed
<1>4. \A s : s = sess' => Savable(s)
  BY <1>1, <1>3, RecordSavable
<1>5. Bound(sess)'
  BY <1>4 DEF Savable
<1>6. PlanRetained'
  BY <1>1, <1>4 DEF Savable, PlanRetained, Retained, OnDisk
<1>7. Shapes' /\ (seen.provider <= Cardinality(Used))'
  BY <1>1 DEF SessionInv, Shapes, Used
<1> QED BY <1>2, <1>5, <1>6, <1>7 DEF SessionInv

LEMMA CallKeeps ==
  ASSUME SessionInv, op # Idle, CallEffect(op.todo[1]), Same PROVE SessionInv'
<1> DEFINE e == op.todo[1]
<1>1. /\ e.do = "call" /\ e.do \notin {"put", "swap"} /\ e # Check("snapshot")
      /\ op' = Rest /\ UNCHANGED <<owner, disk, sess>>
  BY DEF CallEffect, Same, Check
<1>2. CommandInv' /\ EffectsInv'
  BY <1>1, GoneOn
<1>3. /\ seen = [planner |-> seen.planner, provider |-> seen.provider, refused |-> seen.refused]
      /\ seen.provider \in Nat /\ seen.provider <= Cardinality(Used)
  BY DEF SessionInv, Shapes
<1>4. seen \in [planner : {seen.planner}, provider : {seen.provider}, refused : {seen.refused}]
  BY <1>3
<1>5. Used' = Used /\ Cardinality(Used) \in Nat
  BY <1>1, UsedGrows, SessionBounds DEF Used
<1>6. /\ seen' = [planner |-> seen'.planner, provider |-> seen'.provider,
                  refused |-> seen'.refused]
      /\ seen'.provider \in Nat /\ seen'.provider <= Cardinality(Used)
  <2>1. CASE e.who = "planner"
    <3> DEFINE n == seen.planner + 1
    <3>1. seen' = [seen EXCEPT !.planner = n]
      BY <2>1 DEF CallEffect
    <3> HIDE DEF n
    <3> QED BY <1>3, <1>4, <3>1
  <2>2. CASE e.who = "provider" /\ Has(sess, "campaign")
    <3>1. Asks(e)
      BY <1>1, <2>2 DEF Asks
    <3>2. Askable(op.todo, 1)
      BY <2>2, <3>1, OpIs DEF SessionInv, EffectsInv, Safe
    <3>3. seen.provider < Cardinality(Used)
      BY <3>2 DEF Askable
    <3> DEFINE n == seen.provider + 1
    <3>4. seen' = [seen EXCEPT !.provider = n]
      BY <2>2 DEF CallEffect
    <3>5. n \in Nat /\ n <= Cardinality(Used)
      BY <1>3, <1>5, <3>3
    <3> HIDE DEF n
    <3> QED BY <1>4, <3>4, <3>5
  <2>3. CASE e.who # "planner" /\ ~(e.who = "provider" /\ Has(sess, "campaign"))
    <3>1. seen' = seen
      BY <2>3 DEF CallEffect
    <3> QED BY <1>3, <3>1
  <2> QED BY <2>1, <2>2, <2>3
<1>7. Shapes' /\ (seen.provider <= Cardinality(Used))'
  BY <1>1, <1>5, <1>6 DEF SessionInv, Shapes
<1>8. Bound(sess)' /\ PlanRetained'
  BY <1>1 DEF SessionInv, PlanRetained, OnDisk
<1> QED BY <1>2, <1>7, <1>8 DEF SessionInv

(* A snapshot that holds is of an active project and of the owner's        *)
(* authority as the command read it, so no stop was set in between.        *)
LEMMA CheckKeeps ==
  ASSUME SessionInv, op # Idle, CheckEffect(op.todo[1]), Same PROVE SessionInv'
<1>1. /\ op.todo[1].do \notin {"put", "swap"}
      /\ op' = IF Holds(op.todo[1].what) THEN Rest ELSE Idle
      /\ UNCHANGED <<owner, sess, disk, seen>>
  BY DEF CheckEffect, Same
<1>2. op.todo[1] = Check("snapshot") /\ Holds(op.todo[1].what) =>
        op.project.active /\ ~op.stopped
  <2>1. ASSUME op.todo[1] = Check("snapshot"), Holds(op.todo[1].what)
        PROVE  op.project.active /\ ~op.stopped
    <3>1. op.todo[1].what = "snapshot"
      BY <2>1 DEF Check
    <3>2. project = op.project /\ project.active /\ owner = op.owner
      BY <2>1, <3>1 DEF Holds, Acceptable
    <3>3. op.stopped => op.owner.stops < owner.stops
      BY DEF SessionInv, CommandInv
    <3>4. owner.stops \in Nat
      BY DEF SessionInv, Shapes
    <3> QED BY <3>2, <3>3, <3>4
  <2> QED BY <2>1
<1>3. CommandInv' /\ EffectsInv'
  BY <1>1, <1>2, GoneOn, NothingLeft
<1> QED BY <1>1, <1>3, RecordUnmoved DEF SessionInv, Shapes

LEMMA StepKeeps ==
  ASSUME SessionInv, Step PROVE SessionInv'
<1>1. /\ op # Idle /\ Same
      /\ \/ PutEffect(op.todo[1]) \/ SwapEffect(op.todo[1]) \/ SaveEffect(op.todo[1])
         \/ CommitEffect(op.todo[1]) \/ CallEffect(op.todo[1]) \/ CheckEffect(op.todo[1])
  BY OpIs DEF Step
<1> QED BY <1>1, PutKeeps, SwapKeeps, SaveKeeps, CallKeeps, CheckKeeps


-----------------------------------------------------------------------------
(* The sessions the program may find.                                      *)

(* The record found binds a plan for its base that is on disk.             *)
WellFound(f) ==
  /\ Bound(f.sess) /\ f.disk = [n \in DOMAIN f.disk |-> f.disk[n]]
  /\ Audit \notin DOMAIN f.disk
  /\ Has(f.sess, "plan") =>
       f.sess.plan \in DOMAIN f.disk /\ f.disk[f.sess.plan] = f.sess.hash.plan

LEMMA PlannedRecord ==
  /\ IsSession(Planned) /\ Planned.base = 1 /\ Planned.plan = Initial
  /\ Planned.hash = [plan |-> First, candidate |-> First,
                     origin |-> [kind |-> "origin", plan |-> First]]
<1> DEFINE hash == [plan |-> First, candidate |-> First,
                    origin |-> [kind |-> "origin", plan |-> First]]
           p0 == NewSession(1)
           p1 == [p0 EXCEPT !.status = "READY"]
           p2 == [p1 EXCEPT !.plan = Initial]
           p3 == [p2 EXCEPT !.attempts = 1]
           p4 == [p3 EXCEPT !.ops = {<<"start">>}]
           p5 == [p4 EXCEPT !.hash = hash]
<1>0. Planned = p5
  BY DEF Planned
<1>1. IsSession(p0) /\ p0.base = 1
  BY NewSessionBound DEF Bound, NewSession
<1> HIDE DEF p0, hash
<1>2. Changed(p1, p0, "status", "READY")
  BY <1>1, Edited
<1> HIDE DEF p1
<1>3. Changed(p2, p1, "plan", Initial)
  <2>1. IsSession(p1)
    BY <1>2 DEF Changed
  <2> QED BY <2>1, Edited
<1> HIDE DEF p2
<1>4. Changed(p3, p2, "attempts", 1)
  <2>1. IsSession(p2)
    BY <1>3 DEF Changed
  <2> QED BY <2>1, Edited
<1> HIDE DEF p3
<1>5. Changed(p4, p3, "ops", {<<"start">>})
  <2>1. IsSession(p3)
    BY <1>4 DEF Changed
  <2> QED BY <2>1, Edited
<1> HIDE DEF p4
<1>6. Changed(p5, p4, "hash", hash)
  <2>1. IsSession(p4)
    BY <1>5 DEF Changed
  <2> QED BY <2>1, Edited
<1> HIDE DEF p5
<1>7. IsSession(Planned) /\ Planned.base = 1 /\ Planned.plan = Initial /\ Planned.hash = hash
  BY <1>0, <1>1, <1>2, <1>3, <1>4, <1>5, <1>6 DEF Changed
<1> QED BY <1>7 DEF hash

LEMMA WrittenFiles ==
  /\ DOMAIN Written = {Initial, <<"origin", 0>>} /\ Written[Initial] = First
  /\ Written = [n \in DOMAIN Written |-> Written[n]]
BY DEF Written, With, Initial

LEMMA FirstIsPlan == IsPlan(First) /\ First.head = 1
BY DEF First, DirectorPlan, Plan, IsPlan

LEMMA AbsentFine == WellFound(Absent)
<1>1. Changed(NoSession, NewSession(0), "status", "NONE")
  BY NewSessionBound, Edited DEF NoSession, Bound
<1>2. IsSession(NoSession) /\ NoSession.hash = << >>
  BY <1>1 DEF Changed, NewSession
<1>3. Absent.sess = NoSession /\ Absent.disk = << >>
  BY DEF Absent
<1>4. DOMAIN << >> = {}
  OBVIOUS
<1>5. << >> = [n \in DOMAIN << >> |-> << >>[n]]
  OBVIOUS
<1>6. ~Has(NoSession, "plan") /\ ~Has(NoSession, "candidate")
  BY <1>2, <1>4 DEF Has
<1> QED BY <1>2, <1>3, <1>4, <1>5, <1>6 DEF WellFound, Bound

LEMMA CampaignedFine == WellFound(Campaigned)
<1> DEFINE more == [campaign |-> [kind |-> "binding"]]
           r == Record(Planned, more)
           w == With(Written, <<"binding", 0>>, [kind |-> "binding"])
<1>1. Changed(r, Planned, "hash", Over(more, Planned.hash))
  BY PlannedRecord, RecordIs
<1>2. Grown(w, Written, <<"binding", 0>>, [kind |-> "binding"])
  BY WithIs
<1>3. Campaigned.sess = r /\ Campaigned.disk = w
  BY DEF Campaigned
<1>4. DOMAIN more = {"campaign"}
  OBVIOUS
<1> HIDE DEF more, r, w
<1>5. "plan" \in DOMAIN r.hash /\ r.hash["plan"] = First
  BY <1>1, <1>4, PlannedRecord DEF Changed, Over
<1>6. IsSession(r) /\ r.base = 1 /\ r.plan = Initial
  BY <1>1, PlannedRecord DEF Changed
<1>7. Bound(r)
  BY <1>5, <1>6, FirstIsPlan, GivenPlanIsBound DEF Has, Initial, PlanKinds
<1>8. w[Initial] = First /\ Initial \in DOMAIN w /\ Audit \notin DOMAIN w
  BY <1>2, WrittenFiles DEF Grown, Initial, Audit
<1> QED BY <1>2, <1>3, <1>5, <1>6, <1>7, <1>8 DEF WellFound, Grown


LEMMA FoundWithPlan ==
  ASSUME NEW f, NEW name, NEW plan, IsSession(f.sess), "plan" \in DOMAIN f.sess.hash,
         f.sess.hash["plan"] = plan, f.sess.plan = name, f.sess.base = plan.head,
         IsPlan(plan), name[1] \in PlanKinds, f.disk = With(Written, name, plan)
  PROVE  WellFound(f)
<1> DEFINE w == With(Written, name, plan)
<1>1. Grown(w, Written, name, plan)
  BY WithIs
<1> HIDE DEF w
<1>2. Grown(f.disk, Written, name, plan)
  BY <1>1 DEF w
<1>3. Bound(f.sess)
  BY GivenPlanIsBound DEF Has
<1>4. Audit # name /\ Audit \notin DOMAIN Written
  BY WrittenFiles DEF Audit, PlanKinds, Initial
<1> QED BY <1>2, <1>3, <1>4 DEF WellFound, Grown

LEMMA SelfReferentialFine == WellFound(SelfReferential)
<1> DEFINE plan == Plan("assessed", 1, TRUE, PlanAt(2), First)
           hash == [plan |-> plan, original |-> First]
           p1 == [Planned EXCEPT !.status = "BLOCKED"]
           p2 == [p1 EXCEPT !.plan = PlanAt(2)]
           p3 == [p2 EXCEPT !.hash = hash]
<1>0. SelfReferential.sess = p3 /\ SelfReferential.disk = With(Written, PlanAt(2), plan)
  BY DEF SelfReferential
<1>1. IsPlan(plan) /\ plan.head = 1 /\ PlanAt(2)[1] \in PlanKinds
  BY DEF Plan, IsPlan, PlanAt, PlanKinds
<1> HIDE DEF plan
<1>2. "plan" \in DOMAIN hash /\ hash["plan"] = plan
  OBVIOUS
<1> HIDE DEF hash
<1>3. Changed(p1, Planned, "status", "BLOCKED")
  BY PlannedRecord, Edited
<1> HIDE DEF p1
<1>4. Changed(p2, p1, "plan", PlanAt(2))
  <2>1. IsSession(p1)
    BY <1>3 DEF Changed
  <2> QED BY <2>1, Edited
<1> HIDE DEF p2
<1>5. Changed(p3, p2, "hash", hash)
  <2>1. IsSession(p2)
    BY <1>4 DEF Changed
  <2> QED BY <2>1, Edited
<1> HIDE DEF p3
<1>6. IsSession(p3) /\ p3.hash = hash /\ p3.plan = PlanAt(2) /\ p3.base = 1
  BY <1>3, <1>4, <1>5, PlannedRecord DEF Changed
<1> QED BY <1>0, <1>1, <1>2, <1>6, FoundWithPlan

LEMMA UnboundFine == WellFound(Unbound)
<1> DEFINE plan == Plan("delivered", 2, TRUE, Initial, First)
           hash == [plan |-> plan]
           p1 == [Planned EXCEPT !.base = 2]
           p2 == [p1 EXCEPT !.plan = PlanAt(2)]
           p3 == [p2 EXCEPT !.hash = hash]
<1>0. Unbound.sess = p3 /\ Unbound.disk = With(Written, PlanAt(2), plan)
  BY DEF Unbound
<1>1. IsPlan(plan) /\ plan.head = 2 /\ PlanAt(2)[1] \in PlanKinds
  BY DEF Plan, IsPlan, PlanAt, PlanKinds
<1> HIDE DEF plan
<1>2. "plan" \in DOMAIN hash /\ hash["plan"] = plan
  OBVIOUS
<1> HIDE DEF hash
<1>3. Changed(p1, Planned, "base", 2)
  BY PlannedRecord, Edited
<1> HIDE DEF p1
<1>4. Changed(p2, p1, "plan", PlanAt(2))
  <2>1. IsSession(p1)
    BY <1>3 DEF Changed
  <2> QED BY <2>1, Edited
<1> HIDE DEF p2
<1>5. Changed(p3, p2, "hash", hash)
  <2>1. IsSession(p2)
    BY <1>4 DEF Changed
  <2> QED BY <2>1, Edited
<1> HIDE DEF p3
<1>6. IsSession(p3) /\ p3.hash = hash /\ p3.plan = PlanAt(2) /\ p3.base = 2
  BY <1>3, <1>4, <1>5 DEF Changed
<1> QED BY <1>0, <1>1, <1>2, <1>6, FoundWithPlan

LEMMA AcceptedFine == WellFound(Accepted)
<1> DEFINE plan == BoundPlan(Planned)
           more == [plan |-> plan, predecessor |-> First, binding |-> plan]
           name == <<"objective", 1>>
           s == Record(Planned, more)
           r == [s EXCEPT !.plan = name]
<1>0. Accepted.sess = r /\ Accepted.disk = With(Written, name, plan)
  BY DEF Accepted
<1>1. IsPlan(plan) /\ plan.head = 1 /\ name[1] \in PlanKinds
  BY PlannedRecord DEF BoundPlan, Plan, IsPlan, PlanKinds
<1> HIDE DEF plan, name
<1>2. "plan" \in DOMAIN more /\ more["plan"] = plan
  OBVIOUS
<1> HIDE DEF more
<1>3. Changed(s, Planned, "hash", Over(more, Planned.hash))
  BY PlannedRecord, RecordIs
<1> HIDE DEF s
<1>4. Changed(r, s, "plan", name)
  <2>1. IsSession(s)
    BY <1>3 DEF Changed
  <2> QED BY <2>1, Edited
<1> HIDE DEF r
<1>5. IsSession(r) /\ r.plan = name /\ r.base = 1
  BY <1>3, <1>4, PlannedRecord DEF Changed
<1>6. "plan" \in DOMAIN r.hash /\ r.hash["plan"] = plan
  BY <1>2, <1>3, <1>4 DEF Changed, Over
<1> QED BY <1>0, <1>1, <1>5, <1>6, FoundWithPlan

LEMMA InitKeeps == Init => SessionInv
<1> SUFFICES ASSUME Init PROVE SessionInv
  OBVIOUS
<1>1. PICK name \in Found :
        /\ sess = Sessions[name].sess /\ disk = Sessions[name].disk
        /\ owner = [accepted |-> Sessions[name].accepted, stopped |-> FALSE, stops |-> 0]
  BY DEF Init
<1>2. op = Idle /\ seen = [planner |-> 0, provider |-> 0, refused |-> {}]
  BY DEF Init
<1>3. WellFound(Sessions[name])
  <2>1. name \in {"absent", "selfReferential", "unbound", "accepted", "campaigned"}
    BY SessionBounds
  <2>2. /\ Sessions["absent"] = Absent /\ Sessions["selfReferential"] = SelfReferential
        /\ Sessions["unbound"] = Unbound /\ Sessions["accepted"] = Accepted
        /\ Sessions["campaigned"] = Campaigned
    BY DEF Sessions
  <2> QED BY <2>1, <2>2, AbsentFine, SelfReferentialFine, UnboundFine, AcceptedFine,
             CampaignedFine
<1>4. /\ Bound(sess) /\ disk = [n \in DOMAIN disk |-> disk[n]] /\ Audit \notin DOMAIN disk
      /\ Has(sess, "plan") => sess.plan \in DOMAIN disk /\ disk[sess.plan] = sess.hash.plan
  BY <1>1, <1>3 DEF WellFound
<1>5. Shapes
  BY <1>1, <1>2, <1>4 DEF Shapes
<1>6. CommandInv
  BY <1>2 DEF CommandInv, Idle
<1>7. EffectsInv
  <2>1. op.todo = << >> /\ Len(op.todo) = 0
    BY <1>2 DEF Idle
  <2>2. Proper(op.todo)
    BY <2>1, Lists DEF Proper
  <2> QED BY <2>1, <2>2 DEF EffectsInv, Safe, Confirmed
<1>8. PlanRetained
  BY <1>4 DEF PlanRetained, OnDisk
<1>9. seen.provider <= Cardinality(Used)
  <2>1. IsFiniteSet(Slots) /\ Used \subseteq Slots
    BY SessionBounds, FS_Interval DEF Slots, Used
  <2>2. Cardinality(Used) \in Nat
    BY <2>1, FS_Subset, FS_CardinalityType
  <2> QED BY <1>2, <2>2
<1> QED BY <1>4, <1>5, <1>6, <1>7, <1>8, <1>9 DEF SessionInv


-----------------------------------------------------------------------------
(* What every reachable state and every step is like.                      *)

LEMMA NextKeeps == SessionInv /\ [Next]_vars => SessionInv'
<1> SUFFICES ASSUME SessionInv, [Next]_vars PROVE SessionInv'
  OBVIOUS
<1>1. CASE \/ Start \/ Resume \/ ResumeInitialPlanning \/ Assess \/ ReconcileCanonicalTarget
           \/ ReconcileExternal \/ ReconcileResult \/ RepairLineage \/ BindPlan \/ Complete
           \/ AuditReadonly \/ Cancel \/ BindCampaign
  BY <1>1, Commands
<1>2. CASE Step
  BY <1>2, StepKeeps
<1>3. CASE Crash
  BY <1>3, CrashKeeps
<1>4. CASE \/ MoveTarget \/ TouchTree \/ SwitchBranch \/ Deliver \/ VerifyProject
           \/ SetStatus \/ RemoveProject \/ AddProject \/ AcceptObjective \/ SetStop
           \/ UNCHANGED vars
  BY <1>4, BesideKeeps
<1> QED BY <1>1, <1>2, <1>3, <1>4 DEF Next

(* Whatever commands, crashes and changes of the target a session meets,   *)
(* its invariant holds (session_manager.py, session_store.py).             *)
THEOREM SessionInvariance == Spec => []SessionInv
<1>1. Init => SessionInv
  BY InitKeeps
<1>2. SessionInv /\ [Next]_vars => SessionInv'
  BY NextKeeps
<1> QED BY <1>1, <1>2, PTL DEF Spec

(* The plan a record names is on disk as its hash says, or a lineage       *)
(* repair explains what replaced it: artifacts are written before the      *)
(* record (_commit_initial_plan, repair_lineage), crashes included.        *)
THEOREM PlanIsRetained == Spec => []PlanRetained
<1>1. SessionInv => PlanRetained
  BY DEF SessionInv
<1> QED BY <1>1, SessionInvariance, PTL

(* The plan a record binds is a plan for the record's base: every command  *)
(* that moves the base replaces or retires the plan in the same record     *)
(* (_reconcile_delivered, reconcile_canonical_target).                     *)
THEOREM PlanIsOfBase == Spec => []PlanOfBase
<1>1. SessionInv => PlanOfBase
  BY DEF SessionInv, Bound, PlanOfBase
<1> QED BY <1>1, SessionInvariance, PTL

(* A campaign's provider is asked no more often than its budget has slots, *)
(* however often an assessment crashes: a slot is recorded before the      *)
(* provider is asked (assessment_invocation).                              *)
THEOREM InvocationsWithinBudget == Spec => []InvocationBudget
<1>1. SessionInv => InvocationBudget
  <2> SUFFICES ASSUME SessionInv PROVE seen.provider <= Retries + 1
    BY DEF InvocationBudget
  <2>1. Retries \in Nat
    BY SessionBounds
  <2>2. IsFiniteSet(Slots) /\ Cardinality(Slots) = Retries + 1
    BY <2>1, FS_Interval DEF Slots
  <2>3. Used \subseteq Slots
    BY DEF Used
  <2>4. Cardinality(Used) \in Nat /\ Cardinality(Used) <= Cardinality(Slots)
    BY <2>2, <2>3, FS_Subset, FS_CardinalityType
  <2>5. seen.provider \in Nat /\ seen.provider <= Cardinality(Used)
    BY DEF SessionInv, Shapes
  <2> QED BY <2>1, <2>2, <2>4, <2>5
<1> QED BY <1>1, SessionInvariance, PTL

(* A session is recorded COMPLETED on the registered, active project its   *)
(* completion was validated on, and no stop was set while the validators   *)
(* ran, not even one lifted again (complete,                               *)
(* verify_current_completion_evidence).                                    *)
THEOREM CompletionIsCurrent == Spec => CompletedOnCurrentEvidence
<1>1. ASSUME SessionInv, [Next]_vars,
             sess'.status = "COMPLETED", sess.status # "COMPLETED"
      PROVE  project.listed /\ project.active /\ ~op.stopped
  <2>1. sess' # sess
    BY <1>1
  <2>2. Step
    BY <1>1, <2>1 DEF Next, vars, Start, Resume, ResumeInitialPlanning, Assess,
       ReconcileCanonicalTarget, ReconcileExternal, ReconcileResult, RepairLineage, BindPlan,
       Complete, AuditReadonly, Cancel, BindCampaign, Command, Begin, Crash, MoveTarget,
       TouchTree, SwitchBranch, Deliver, VerifyProject, SetStatus, RemoveProject, AddProject,
       AcceptObjective, SetStop, Beside
  <2> DEFINE e == op.todo[1]
  <2>3. /\ op # Idle
        /\ \/ SaveEffect(e)
           \/ CommitEffect(e) /\ project.listed /\ project = op.project /\ sess' = e.session
    <3>1. /\ op # Idle /\ Head(op.todo) = e
          /\ \/ PutEffect(e) \/ SwapEffect(e) \/ SaveEffect(e)
             \/ CommitEffect(e) \/ CallEffect(e) \/ CheckEffect(e)
      BY <1>1, <2>2, OpIs DEF Step
    <3> QED BY <2>1, <3>1 DEF PutEffect, SwapEffect, CommitEffect, CallEffect, CheckEffect
  <2>4. Safe(op.todo) /\ 1 \in 1..Len(op.todo)
    BY <1>1, <2>3, OpIs DEF SessionInv, EffectsInv
  <2>5. ~SaveEffect(e)
    BY <1>1, <2>4 DEF Safe, Proper, Saves, SaveEffect
  <2>6. Completes(e)
    BY <1>1, <2>3, <2>5 DEF CommitEffect, Completes
  <2>7. Len(op.todo) = 1
    BY <2>4, <2>6 DEF Safe, Last
  <2>8. op.project.active /\ ~op.stopped
    BY <1>1, <2>6, <2>7 DEF SessionInv, EffectsInv, Confirmed
  <2> QED BY <2>3, <2>5, <2>8
<1> QED BY <1>1, SessionInvariance, PTL DEF Spec, CompletedOnCurrentEvidence
=============================================================================
