--------------------------- MODULE WebhooksProofs ---------------------------
(***************************************************************************)
(* Proofs about Webhooks for any tenants, registrations and calls of the   *)
(* dispatcher, any window and clock errors, and any kinds of fault.        *)
(***************************************************************************)
EXTENDS Webhooks, TLAPS

\* Every request carries its own time, signed with its registration's secret.
WireSigned ==
    \A m \in wire :
        /\ m.ts = m.at
        /\ m.sig = sign_payload(m.reg, m.at, m.post)
        /\ Owner[m.reg] = TenantOf[m.post]

\* What a receiver looks at, when it judges at its own time.
InTime(v) == ~OutsideWindow(v.clock + Skew[v.req.reg], v.req.ts)
RightlySigned(v) == v.req.sig = sign_payload(SecretAt[v.req.reg], v.req.ts, v.req.post)

\* The network changes timestamps, never signatures; and a verdict is what the
\* two checks of the receiver said.
VerdictsJudged ==
    \A v \in verdicts :
        /\ v.req.sig = sign_payload(v.req.reg, v.req.at, v.req.post)
        /\ Owner[v.req.reg] = TenantOf[v.req.post]
        /\ v.ok => InTime(v) /\ RightlySigned(v)
        /\ ~v.ok => ~(InTime(v) /\ RightlySigned(v))

\* A call visits registrations of its own tenant, one at a time.
OwnVisits == \A p \in Posts : \A r \in todo[p] \cup cur[p] : Owner[r] = TenantOf[p]
OneAtATime ==
    \A p \in Posts :
        /\ \A r, s \in cur[p] : r = s
        /\ job[p] \in {"idle", "looping"} => cur[p] = {}

Accepted(p, r) == \E v \in verdicts : v.ok /\ v.req.post = p /\ v.req.reg = r

\* What a session holds is about its own call, and its successes are real.
HeldAreReal ==
    \A p \in Posts : \A d \in held[p] :
        d.post = p /\ (d.status = "success" => Accepted(p, d.reg))

HasHeld(p, r) == \E d \in held[p] : d.reg = r

\* Until the commit, every attempt is under way or held in the session.
AttemptsKept ==
    \A p \in Posts, r \in Regs :
        Attempted(p, r) =>
            /\ job[p] # "idle"
            /\ job[p] \in Live => r \in cur[p] \/ HasHeld(p, r)

\* A registration a call has found goes away only with its tenant.
RegsKnown ==
    /\ \A r \in regs : Owner[r] \in tenants
    /\ \A p \in Posts, r \in Regs :
          r \in todo[p] \/ Attempted(p, r) => r \in regs \/ Owner[r] \notin tenants

\* The inductive invariant.
IInv ==
    /\ TypeOK
    /\ WireSigned
    /\ VerdictsJudged
    /\ OwnVisits
    /\ OneAtATime
    /\ HeldAreReal
    /\ AttemptsKept
    /\ RegsKnown
    /\ SuccessMeansAccepted
    /\ DoneIsRecorded

-----------------------------------------------------------------------------
(* What depends on which variables.                                         *)

\* A step that leaves the requests alone.
LEMMA WireFrame ==
  ASSUME WireSigned, wire' = wire
  PROVE  WireSigned'
BY DEF WireSigned, sign_payload

\* A step in which no receiver decides anything.
LEMMA VerdictsFrame ==
  ASSUME VerdictsJudged, verdicts' = verdicts
  PROVE  VerdictsJudged' /\ \A p, r : Accepted(p, r)' <=> Accepted(p, r)
BY DEF VerdictsJudged, InTime, RightlySigned, OutsideWindow, sign_payload, Accepted

\* Nothing is attempted without a new request.
LEMMA AttemptsFrame ==
  ASSUME wire' = wire
  PROVE  \A p, r : Attempted(p, r)' <=> Attempted(p, r)
BY DEF Attempted

\* A step that leaves the sessions alone.
LEMMA HeldFrame ==
  ASSUME held' = held
  PROVE  \A p, r : HasHeld(p, r)' <=> HasHeld(p, r)
BY DEF HasHeld

\* A step that leaves webhook_deliveries alone.
LEMMA RowsFrame ==
  ASSUME rows' = rows
  PROVE  \A p, r : Recorded(p, r)' <=> Recorded(p, r)
BY DEF Recorded

\* The invariant holds at the start.
LEMMA InitHolds == Init => IInv
<1> SUFFICES ASSUME Init PROVE IInv
  OBVIOUS
<1>1. TypeOK
  BY ClockAssumption DEF Init, TypeOK, JobPCs, Times
<1>2. WireSigned /\ VerdictsJudged /\ OwnVisits /\ OneAtATime /\ HeldAreReal
  BY DEF Init, WireSigned, VerdictsJudged, OwnVisits, OneAtATime, HeldAreReal
<1>3. AttemptsKept /\ RegsKnown /\ SuccessMeansAccepted /\ DoneIsRecorded
  BY DEF Init, AttemptsKept, RegsKnown, SuccessMeansAccepted, DoneIsRecorded, Attempted
<1> QED BY <1>1, <1>2, <1>3 DEF IInv

-----------------------------------------------------------------------------
(* The steps.                                                               *)

\* A new registration: no call has met it before.
LEMMA CreateStep ==
  ASSUME IInv, NEW r \in Regs, CreateRegistration(r)
  PROVE  IInv'
<1> USE DEF IInv
<1>1. /\ regs' = regs \cup {r} /\ r \notin regs /\ Owner[r] \in tenants
      /\ told' \subseteq told \cup {r}
      /\ UNCHANGED <<tenants, rows, job, todo, cur, held, wire, verdicts, now>>
  BY DEF CreateRegistration, jobVars, netVars
<1>2. TypeOK'
  BY <1>1 DEF TypeOK
<1>3. WireSigned' /\ VerdictsJudged'
  BY <1>1, WireFrame, VerdictsFrame
<1>4. OwnVisits' /\ OneAtATime'
  BY <1>1 DEF OwnVisits, OneAtATime
<1>5. HeldAreReal' /\ SuccessMeansAccepted'
  BY <1>1, VerdictsFrame DEF HeldAreReal, SuccessMeansAccepted
<1>6. AttemptsKept'
  BY <1>1, AttemptsFrame, HeldFrame DEF AttemptsKept
<1>7. RegsKnown'
  BY <1>1, AttemptsFrame DEF RegsKnown
<1>8. DoneIsRecorded'
  <2>1. ASSUME NEW p \in Posts PROVE ~Attempted(p, r)
    BY <1>1 DEF RegsKnown
  <2>2. \A p, q : Attempted(p, q)' <=> Attempted(p, q)
    BY <1>1, AttemptsFrame
  <2>3. \A p, q : Recorded(p, q)' <=> Recorded(p, q)
    BY <1>1, RowsFrame
  <2> QED BY <1>1, <2>1, <2>2, <2>3 DEF DoneIsRecorded
<1> QED BY <1>2, <1>3, <1>4, <1>5, <1>6, <1>7, <1>8

\* The query finds registrations of its tenant that exist.
LEMMA QueryStep ==
  ASSUME IInv, NEW p \in Posts, Query(p)
  PROVE  IInv'
<1> USE DEF IInv
<1>1. /\ job[p] = "idle"
      /\ UNCHANGED <<tenants, regs, told, rows, cur, held, wire, verdicts, now>>
  BY DEF Query, dbVars, netVars
<1>2. /\ \/ todo' = [todo EXCEPT ![p] = RegistrationsOf(TenantOf[p])]
         \/ todo' = todo
      /\ \E x \in {"done", "looping", "dead"} : job' = [job EXCEPT ![p] = x]
      /\ job'[p] = "looping" => job'[p] \in Live
  BY DEF Query, JobGoes, Live, Awaiting
<1>3. TypeOK'
  BY <1>1, <1>2 DEF TypeOK, RegistrationsOf, JobPCs, Live, Awaiting
<1>4. WireSigned' /\ VerdictsJudged'
  BY <1>1, WireFrame, VerdictsFrame
<1>5. \A r \in RegistrationsOf(TenantOf[p]) : r \in regs /\ Owner[r] = TenantOf[p]
  BY DEF RegistrationsOf
<1>6. \A q \in Posts, r \in Regs :
        r \in todo'[q] => r \in todo[q] \/ (q = p /\ r \in RegistrationsOf(TenantOf[p]))
  BY <1>2 DEF TypeOK
<1>7. OwnVisits'
  BY <1>1, <1>3, <1>5, <1>6 DEF OwnVisits, TypeOK
<1>8. HeldAreReal' /\ SuccessMeansAccepted'
  BY <1>1, VerdictsFrame DEF HeldAreReal, SuccessMeansAccepted
<1>9. \A q, r : Attempted(q, r)' <=> Attempted(q, r)
  BY <1>1, AttemptsFrame
<1>10. \A r \in Regs : ~Attempted(p, r)
  BY <1>1 DEF AttemptsKept
<1>11. AttemptsKept'
  <2>1. \A q \in Posts : q # p => job'[q] = job[q]
    BY <1>2 DEF TypeOK
  <2> QED BY <1>1, <1>9, <1>10, <2>1, HeldFrame DEF AttemptsKept
<1>12. RegsKnown'
  BY <1>1, <1>5, <1>6, <1>9 DEF RegsKnown
<1>13. DoneIsRecorded'
  <2>1. \A q \in Posts : q # p => job'[q] = job[q]
    BY <1>2 DEF TypeOK
  <2>2. \A q, r : Recorded(q, r)' <=> Recorded(q, r)
    BY <1>1, RowsFrame
  <2>3. regs \subseteq Regs
    BY DEF TypeOK
  <2> QED BY <1>1, <1>9, <1>10, <2>1, <2>2, <2>3 DEF DoneIsRecorded
<1>14. OneAtATime'
  <2>1. \A q \in Posts : q # p => job'[q] = job[q]
    BY <1>2 DEF TypeOK
  <2> QED BY <1>1, <2>1 DEF OneAtATime
<1> QED BY <1>3, <1>4, <1>7, <1>8, <1>11, <1>12, <1>13, <1>14

\* One request is stamped, signed and sent.
LEMMA SendStep ==
  ASSUME IInv, NEW p \in Posts, Send(p)
  PROVE  IInv'
<1> USE DEF IInv
<1>1. /\ job[p] = "looping"
      /\ UNCHANGED <<tenants, regs, told, rows, held, verdicts, now>>
      /\ job' = [job EXCEPT ![p] = "waiting"]
  BY DEF Send, dbVars, JobGoes
<1>2. PICK r \in todo[p] :
         /\ wire' = wire \cup {[post |-> p, reg |-> r, ts |-> now, at |-> now,
                                sig |-> sign_payload(r, now, p)]}
         /\ todo' = [todo EXCEPT ![p] = @ \ {r}]
         /\ cur' = [cur EXCEPT ![p] = {r}]
  BY DEF Send, Stamp
<1> DEFINE new == [post |-> p, reg |-> r, ts |-> now, at |-> now, sig |-> sign_payload(r, now, p)]
<1>3. r \in Regs /\ now \in Times
  BY DEF TypeOK
<1>4. /\ new \in Requests /\ new.post = p /\ new.reg = r /\ new.ts = now /\ new.at = now
      /\ new.sig = sign_payload(r, now, p)
  BY <1>3 DEF Requests, sign_payload
<1>5. wire' = wire \cup {new}
  BY <1>2
<1> HIDE DEF new
<1>6. \A q \in Posts : /\ q # p => job'[q] = job[q] /\ todo'[q] = todo[q] /\ cur'[q] = cur[q]
                       /\ todo'[q] \subseteq todo[q]
  BY <1>1, <1>2 DEF TypeOK
<1>7. job'[p] = "waiting" /\ cur'[p] = {r}
  BY <1>1, <1>2 DEF TypeOK
<1>8. TypeOK'
  BY <1>1, <1>2, <1>3, <1>4, <1>5 DEF TypeOK, JobPCs, Live, Awaiting
<1>9. Owner[r] = TenantOf[p]
  BY DEF OwnVisits
<1>10. WireSigned'
  BY <1>4, <1>5, <1>9 DEF WireSigned, sign_payload
<1>11. VerdictsJudged'
  BY <1>1, VerdictsFrame
<1>12. OwnVisits'
  BY <1>6, <1>7, <1>9 DEF OwnVisits
<1>13. OneAtATime'
  BY <1>6, <1>7 DEF OneAtATime
<1>14. HeldAreReal' /\ SuccessMeansAccepted'
  BY <1>1, VerdictsFrame DEF HeldAreReal, SuccessMeansAccepted
<1>15. \A q \in Posts, s \in Regs : Attempted(q, s)' <=> Attempted(q, s) \/ (q = p /\ s = r)
  BY <1>4, <1>5 DEF Attempted
<1>16. AttemptsKept'
  <2> SUFFICES ASSUME NEW q \in Posts, NEW s \in Regs, Attempted(q, s)'
               PROVE  /\ job'[q] # "idle"
                      /\ job'[q] \in Live => s \in cur'[q] \/ HasHeld(q, s)'
    BY DEF AttemptsKept
  <2>1. CASE q # p
    BY <1>1, <1>6, <1>15, <2>1, HeldFrame DEF AttemptsKept
  <2>2. CASE q = p
    <3>1. cur[p] = {} /\ job[p] \in Live
      BY <1>1 DEF OneAtATime, Live, Awaiting
    <3>2. s = r \/ HasHeld(p, s)
      BY <1>15, <2>2, <3>1 DEF AttemptsKept
    <3> QED BY <1>1, <1>7, <2>2, <3>2, HeldFrame
  <2> QED BY <2>1, <2>2
<1>17. RegsKnown'
  BY <1>1, <1>3, <1>6, <1>15 DEF RegsKnown
<1>18. DoneIsRecorded'
  <2>1. \A q, s : Recorded(q, s)' <=> Recorded(q, s)
    BY <1>1, RowsFrame
  <2>2. regs \subseteq Regs
    BY DEF TypeOK
  <2> QED BY <1>1, <1>6, <1>7, <1>15, <2>1, <2>2 DEF DoneIsRecorded
<1> QED BY <1>8, <1>10, <1>11, <1>12, <1>13, <1>14, <1>16, <1>17, <1>18

\* What the loop does after an await, for an answer and for an exception.
LEMMA ResumeStep ==
  ASSUME IInv, NEW p \in Posts, NEW r \in cur[p], NEW s \in {"success", "failed"},
         job[p] \in Awaiting,
         s = "success" => Accepted(p, r),
         Held(p, r, s),
         cur' = [cur EXCEPT ![p] = {}],
         JobGoes(p, "looping"),
         UNCHANGED <<dbVars, todo, netVars>>
  PROVE  IInv'
<1> USE DEF IInv
<1>1. UNCHANGED <<tenants, regs, told, rows, todo, wire, verdicts, now>>
  BY DEF dbVars, netVars
<1> DEFINE new == [post |-> p, reg |-> r, status |-> s]
<1>2. new \in Deliveries /\ new.post = p /\ new.reg = r /\ new.status = s /\ r \in Regs
  BY DEF Deliveries, TypeOK
<1>3. held' = [held EXCEPT ![p] = @ \cup {new}]
  BY DEF Held
<1> HIDE DEF new
<1>4. \A q \in Posts : q # p => job'[q] = job[q] /\ held'[q] = held[q] /\ cur'[q] = cur[q]
  BY <1>3 DEF TypeOK, JobGoes
<1>5. job'[p] = "looping" /\ held'[p] = held[p] \cup {new} /\ cur'[p] = {}
  BY <1>3 DEF TypeOK, JobGoes
<1>6. TypeOK'
  BY <1>1, <1>2, <1>3 DEF TypeOK, JobPCs, Live, Awaiting, JobGoes
<1>7. WireSigned' /\ VerdictsJudged'
  BY <1>1, WireFrame, VerdictsFrame
<1>8. OwnVisits'
  BY <1>1, <1>4, <1>5 DEF OwnVisits
<1>9. OneAtATime'
  BY <1>4, <1>5 DEF OneAtATime
<1>10. \A q, t : Accepted(q, t)' <=> Accepted(q, t)
  BY <1>1, VerdictsFrame
<1>11. HeldAreReal'
  BY <1>2, <1>4, <1>5, <1>10 DEF HeldAreReal
<1>12. SuccessMeansAccepted'
  BY <1>1 DEF SuccessMeansAccepted
<1>13. \A q, t : Attempted(q, t)' <=> Attempted(q, t)
  BY <1>1, AttemptsFrame
<1>14. AttemptsKept'
  <2> SUFFICES ASSUME NEW q \in Posts, NEW t \in Regs, Attempted(q, t)'
               PROVE  /\ job'[q] # "idle"
                      /\ job'[q] \in Live => t \in cur'[q] \/ HasHeld(q, t)'
    BY DEF AttemptsKept
  <2>1. CASE q # p
    BY <1>4, <1>13, <2>1 DEF AttemptsKept, HasHeld
  <2>2. CASE q = p
    <3>1. t \in cur[p] \/ HasHeld(p, t)
      BY <1>13, <2>2 DEF AttemptsKept, Live, Awaiting
    <3>2. t = r \/ HasHeld(p, t)
      BY <3>1 DEF OneAtATime
    <3>3. HasHeld(p, t)'
      BY <1>2, <1>5, <3>2 DEF HasHeld
    <3> QED BY <1>5, <2>2, <3>3
  <2> QED BY <2>1, <2>2
<1>15. RegsKnown'
  BY <1>1, <1>13 DEF RegsKnown
<1>16. DoneIsRecorded'
  <2>1. \A q, t : Recorded(q, t)' <=> Recorded(q, t)
    BY <1>1, RowsFrame
  <2> QED BY <1>1, <1>4, <1>5, <1>13, <2>1 DEF DoneIsRecorded
<1> QED BY <1>6, <1>7, <1>8, <1>9, <1>11, <1>12, <1>14, <1>15, <1>16

\* An answer in time.
LEMMA AnsweredStep ==
  ASSUME IInv, NEW p \in Posts, Answered(p)
  PROVE  IInv'
<1>1. PICK v \in verdicts : v.req.post = p /\ v.req.reg \in cur[p]
                            /\ Held(p, v.req.reg, StatusOf(v.ok))
  BY DEF Answered
<1>2. StatusOf(v.ok) \in {"success", "failed"}
  BY DEF StatusOf
<1>3. StatusOf(v.ok) = "success" => Accepted(p, v.req.reg)
  BY <1>1 DEF StatusOf, Accepted
<1> QED BY <1>1, <1>2, <1>3, ResumeStep DEF Answered

\* An exception of the HTTP client.
LEMMA RaisedStep ==
  ASSUME IInv, NEW p \in Posts, Raised(p)
  PROVE  IInv'
<1>1. PICK r \in cur[p] : Held(p, r, "failed")
  BY DEF Raised
<1> QED BY <1>1, ResumeStep DEF Raised

\* The commit writes what the session holds, or nothing.
LEMMA CommitStep ==
  ASSUME IInv, NEW p \in Posts, Commit(p)
  PROVE  IInv'
<1> USE DEF IInv
<1>1. /\ job[p] = "looping" /\ todo[p] = {}
      /\ UNCHANGED <<tenants, regs, told, todo, cur, held, wire, verdicts, now>>
  BY DEF Commit, netVars
<1>2. PICK x \in {"done", "dead"} :
         /\ job' = [job EXCEPT ![p] = x]
         /\ x = "done" => rows' = rows \cup held[p]
         /\ rows' = rows \/ (rows' = rows \cup held[p] /\ \A d \in held[p] : d.reg \in regs)
  BY DEF Commit, JobGoes
<1>3. /\ \A q \in Posts : q # p => job'[q] = job[q]
      /\ job'[p] = x
  BY <1>2 DEF TypeOK
<1>4. TypeOK'
  BY <1>1, <1>2 DEF TypeOK, JobPCs
<1>5. WireSigned' /\ VerdictsJudged'
  BY <1>1, WireFrame, VerdictsFrame
<1>6. OwnVisits' /\ OneAtATime'
  BY <1>1, <1>3 DEF OwnVisits, OneAtATime
<1>7. \A q, r : Accepted(q, r)' <=> Accepted(q, r)
  BY <1>1, VerdictsFrame
<1>8. HeldAreReal'
  BY <1>1, <1>7 DEF HeldAreReal
<1>9. SuccessMeansAccepted'
  <2>1. \A d \in rows' : d \in rows \/ d \in held[p]
    BY <1>2
  <2> QED BY <1>1, <2>1 DEF SuccessMeansAccepted, HeldAreReal, Accepted
<1>10. \A q, r : Attempted(q, r)' <=> Attempted(q, r)
  BY <1>1, AttemptsFrame
<1>11. AttemptsKept'
  BY <1>1, <1>3, <1>10, HeldFrame DEF AttemptsKept, Live, Awaiting
<1>12. RegsKnown'
  BY <1>1, <1>10 DEF RegsKnown
<1>13. DoneIsRecorded'
  <2>1. ASSUME NEW q \in Posts, NEW r \in regs', job'[q] = "done", Attempted(q, r)',
               Owner[r] \in tenants'
        PROVE  Recorded(q, r)'
    <3>1. rows \subseteq rows'
      BY <1>2
    <3>2. CASE q # p
      BY <1>1, <1>3, <1>10, <2>1, <3>1, <3>2 DEF DoneIsRecorded, Recorded
    <3>3. CASE q = p
      <4>1. cur[p] = {} /\ r \in Regs
        BY <1>1, <2>1 DEF OneAtATime, TypeOK
      <4>2. PICK d \in held[p] : d.reg = r
        BY <1>1, <1>10, <2>1, <3>3, <4>1 DEF AttemptsKept, Live, Awaiting, HasHeld
      <4>3. d.post = p /\ d \in rows'
        BY <1>2, <1>3, <2>1, <3>3 DEF HeldAreReal
      <4> QED BY <3>3, <4>2, <4>3 DEF Recorded
    <3> QED BY <3>2, <3>3
  <2>2. \A d \in rows' : d.reg \in regs' /\ Owner[d.reg] \in tenants'
    BY <1>1, <1>2 DEF DoneIsRecorded, RegsKnown
  <2> QED BY <2>1, <2>2 DEF DoneIsRecorded
<1> QED BY <1>4, <1>5, <1>6, <1>8, <1>9, <1>11, <1>12, <1>13

\* A receiver decides; what it got has the signature of what was sent.
LEMMA ReceiveStep ==
  ASSUME IInv, NEW m \in wire, Receive(m)
  PROVE  IInv'
<1> USE DEF IInv
<1>1. UNCHANGED <<tenants, regs, told, rows, job, todo, cur, held, wire, now>>
  BY DEF Receive, dbVars, jobVars
<1>2. PICK t \in Times :
         verdicts' = verdicts \cup
            {[req |-> [post |-> m.post, reg |-> m.reg, ts |-> t, at |-> m.at, sig |-> m.sig],
              clock |-> now,
              ok |-> Accepts([post |-> m.post, reg |-> m.reg, ts |-> t, at |-> m.at,
                              sig |-> m.sig])]}
  BY DEF Receive
<1> DEFINE got == [post |-> m.post, reg |-> m.reg, ts |-> t, at |-> m.at, sig |-> m.sig]
           new == [req |-> got, clock |-> now, ok |-> Accepts(got)]
<1>3. m \in Requests /\ now \in Times
  BY DEF TypeOK
<1>4. /\ got \in Requests /\ got.post = m.post /\ got.reg = m.reg /\ got.ts = t
      /\ got.at = m.at /\ got.sig = m.sig
  BY <1>3 DEF Requests
<1>5. verdicts' = verdicts \cup {new}
  BY <1>2
<1> HIDE DEF got
<1>6. Accepts(got) \in BOOLEAN
  BY DEF Accepts
<1>7. /\ new \in Verdicts /\ new.req = got /\ new.clock = now /\ new.ok = Accepts(got)
  BY <1>3, <1>4, <1>6 DEF Verdicts
<1> HIDE DEF new
<1>8. TypeOK'
  BY <1>1, <1>5, <1>7 DEF TypeOK
<1>9. Accepts(got) <=> InTime(new) /\ RightlySigned(new)
  BY <1>7 DEF Accepts, InTime, RightlySigned
<1>10. new.ok <=> InTime(new) /\ RightlySigned(new)
  BY <1>7, <1>9
<1>11. /\ new.req.sig = sign_payload(new.req.reg, new.req.at, new.req.post)
       /\ Owner[new.req.reg] = TenantOf[new.req.post]
  BY <1>4, <1>7 DEF WireSigned, sign_payload
<1>12. VerdictsJudged'
  <2>1. ASSUME NEW v \in verdicts'
        PROVE  /\ v.req.sig = sign_payload(v.req.reg, v.req.at, v.req.post)
               /\ Owner[v.req.reg] = TenantOf[v.req.post]
               /\ v.ok => InTime(v) /\ RightlySigned(v)
               /\ ~v.ok => ~(InTime(v) /\ RightlySigned(v))
    <3>1. CASE v \in verdicts
      BY <3>1 DEF VerdictsJudged
    <3>2. CASE v = new
      BY <1>10, <1>11, <3>2
    <3> QED BY <1>5, <3>1, <3>2
  <2> QED BY <2>1 DEF VerdictsJudged, InTime, RightlySigned, OutsideWindow, sign_payload
<1>13. \A p, r : Accepted(p, r) => Accepted(p, r)'
  BY <1>5 DEF Accepted
<1>14. HeldAreReal'
  BY <1>1, <1>13 DEF HeldAreReal
<1>15. SuccessMeansAccepted'
  BY <1>1, <1>5 DEF SuccessMeansAccepted
<1>16. WireSigned'
  BY <1>1, WireFrame
<1>17. OwnVisits' /\ OneAtATime'
  BY <1>1 DEF OwnVisits, OneAtATime
<1>18. AttemptsKept' /\ RegsKnown' /\ DoneIsRecorded'
  BY <1>1, AttemptsFrame, HeldFrame, RowsFrame DEF AttemptsKept, RegsKnown, DoneIsRecorded
<1> QED BY <1>8, <1>12, <1>14, <1>15, <1>16, <1>17, <1>18

\* A tenant goes with its registrations and their deliveries.
LEMMA DeleteStep ==
  ASSUME IInv, NEW t \in Tenants, DeleteTenant(t)
  PROVE  IInv'
<1> USE DEF IInv
<1>1. /\ tenants' = tenants \ {t}
      /\ regs' = {r \in regs : Owner[r] # t}
      /\ rows' = {d \in rows : Owner[d.reg] # t}
      /\ UNCHANGED <<told, job, todo, cur, held, wire, verdicts, now>>
  BY DEF DeleteTenant, jobVars, netVars
<1>2. TypeOK'
  BY <1>1 DEF TypeOK
<1>3. WireSigned' /\ VerdictsJudged'
  BY <1>1, WireFrame, VerdictsFrame
<1>4. OwnVisits' /\ OneAtATime'
  BY <1>1 DEF OwnVisits, OneAtATime
<1>5. HeldAreReal'
  BY <1>1, VerdictsFrame DEF HeldAreReal
<1>6. SuccessMeansAccepted'
  BY <1>1 DEF SuccessMeansAccepted
<1>7. \A p, r : Attempted(p, r)' <=> Attempted(p, r)
  BY <1>1, AttemptsFrame
<1>8. AttemptsKept'
  BY <1>1, <1>7, HeldFrame DEF AttemptsKept
<1>9. RegsKnown'
  BY <1>1, <1>7 DEF RegsKnown
<1>10. DoneIsRecorded'
  BY <1>1, <1>7 DEF DoneIsRecorded, Recorded
<1> QED BY <1>2, <1>3, <1>4, <1>5, <1>6, <1>8, <1>9, <1>10

\* Time passes.
LEMMA TickStep ==
  ASSUME IInv, Tick
  PROVE  IInv'
<1> USE DEF IInv
<1>1. /\ now < MaxTime /\ now' = now + 1
      /\ UNCHANGED <<tenants, regs, told, rows, job, todo, cur, held, wire, verdicts>>
  BY DEF Tick, dbVars, jobVars
<1>2. TypeOK'
  BY <1>1, ClockAssumption DEF TypeOK, Times
<1>3. WireSigned' /\ VerdictsJudged'
  BY <1>1, WireFrame, VerdictsFrame
<1>4. OwnVisits' /\ OneAtATime'
  BY <1>1 DEF OwnVisits, OneAtATime
<1>5. HeldAreReal' /\ SuccessMeansAccepted'
  BY <1>1, VerdictsFrame DEF HeldAreReal, SuccessMeansAccepted
<1>6. AttemptsKept' /\ RegsKnown' /\ DoneIsRecorded'
  BY <1>1, AttemptsFrame, HeldFrame, RowsFrame DEF AttemptsKept, RegsKnown, DoneIsRecorded
<1> QED BY <1>2, <1>3, <1>4, <1>5, <1>6

\* An answer begins to arrive.
LEMMA TrickleStep ==
  ASSUME IInv, NEW p \in Posts, Trickle(p)
  PROVE  IInv'
<1> USE DEF IInv
<1>1. /\ job[p] = "waiting" /\ job' = [job EXCEPT ![p] = "dripping"]
      /\ UNCHANGED <<tenants, regs, told, rows, todo, cur, held, wire, verdicts, now>>
  BY DEF Trickle, JobGoes, dbVars, netVars
<1>2. /\ job' \in [Posts -> JobPCs] /\ job[p] \in Live
      /\ \A q \in Posts : job'[q] = IF q = p THEN "dripping" ELSE job[q]
  BY <1>1 DEF TypeOK, JobPCs, Live, Awaiting
<1>3. TypeOK'
  BY <1>1, <1>2 DEF TypeOK
<1>4. WireSigned' /\ VerdictsJudged'
  BY <1>1, WireFrame, VerdictsFrame
<1>5. OwnVisits' /\ OneAtATime'
  BY <1>1, <1>2 DEF OwnVisits, OneAtATime
<1>6. HeldAreReal' /\ SuccessMeansAccepted'
  BY <1>1, VerdictsFrame DEF HeldAreReal, SuccessMeansAccepted
<1>7. AttemptsKept' /\ RegsKnown' /\ DoneIsRecorded'
  BY <1>1, <1>2, AttemptsFrame, HeldFrame, RowsFrame DEF AttemptsKept, RegsKnown, DoneIsRecorded
<1> QED BY <1>3, <1>4, <1>5, <1>6, <1>7

\* A restart, and a step that changes nothing.
LEMMA CrashStep ==
  ASSUME IInv, Crash \/ UNCHANGED vars
  PROVE  IInv'
<1> USE DEF IInv
<1>1. UNCHANGED <<tenants, regs, told, rows, todo, cur, held, wire, verdicts, now>>
  BY DEF Crash, vars, dbVars, netVars
<1>2. /\ job' \in [Posts -> JobPCs]
      /\ \A p \in Posts : job'[p] = job[p] \/ job'[p] = "lost"
  BY DEF Crash, vars, TypeOK, JobPCs
<1>3. TypeOK'
  BY <1>1, <1>2 DEF TypeOK
<1>4. WireSigned' /\ VerdictsJudged'
  BY <1>1, WireFrame, VerdictsFrame
<1>5. OwnVisits' /\ OneAtATime'
  BY <1>1, <1>2 DEF OwnVisits, OneAtATime
<1>6. HeldAreReal' /\ SuccessMeansAccepted'
  BY <1>1, VerdictsFrame DEF HeldAreReal, SuccessMeansAccepted
<1>7. AttemptsKept' /\ RegsKnown' /\ DoneIsRecorded'
  BY <1>1, <1>2, AttemptsFrame, HeldFrame, RowsFrame
     DEF AttemptsKept, RegsKnown, DoneIsRecorded, Live, Awaiting
<1> QED BY <1>3, <1>4, <1>5, <1>6, <1>7

-----------------------------------------------------------------------------
(* The theorems.                                                            *)

\* The invariant holds in every reachable state.
THEOREM Invariance == Spec => []IInv
<1>1. Init => IInv
  BY InitHolds
<1>2. IInv /\ [Next]_vars => IInv'
  <2> SUFFICES ASSUME IInv, [Next]_vars PROVE IInv'
    OBVIOUS
  <2>1. CASE \E r \in Regs : CreateRegistration(r)
    BY <2>1, CreateStep
  <2>2. CASE \E p \in Posts : Query(p) \/ JobStep(p) \/ Trickle(p)
    BY <2>2, QueryStep, SendStep, AnsweredStep, RaisedStep, CommitStep, TrickleStep DEF JobStep
  <2>3. CASE \E m \in wire : Receive(m)
    BY <2>3, ReceiveStep
  <2>4. CASE \E t \in Tenants : DeleteTenant(t)
    BY <2>4, DeleteStep
  <2>5. CASE Tick
    BY <2>5, TickStep
  <2>6. CASE Crash \/ UNCHANGED vars
    BY <2>6, CrashStep
  <2> QED BY <2>1, <2>2, <2>3, <2>4, <2>5, <2>6 DEF Next
<1> QED BY <1>1, <1>2, PTL DEF Spec

\* Every variable keeps its type.
THEOREM TypeCorrect == Spec => []TypeOK
<1>1. IInv => TypeOK
  BY DEF IInv
<1> QED BY <1>1, Invariance, PTL

\* A receiver accepts only what the platform made for a registration of the
\* event's tenant and with that receiver's secret, within the window of the
\* time it was made, for any window and any clock error: replays and changed
\* timestamps included.
THEOREM AcceptedAlwaysFresh == Spec => []AcceptedIsFresh
<1>1. IInv => AcceptedIsFresh
  <2> SUFFICES ASSUME IInv, NEW v \in verdicts, v.ok
               PROVE  /\ v.clock + Skew[v.req.reg] - v.req.at <= Window
                      /\ SecretAt[v.req.reg] = v.req.reg
                      /\ Owner[v.req.reg] = TenantOf[v.req.post]
    BY DEF AcceptedIsFresh
  <2>1. /\ v.req.reg \in Regs /\ v.req.ts \in Int /\ v.req.at \in Int /\ v.clock \in Int
    BY ClockAssumption DEF IInv, TypeOK, Verdicts, Requests, Times
  <2>2. /\ v.req.sig = sign_payload(v.req.reg, v.req.at, v.req.post)
        /\ Owner[v.req.reg] = TenantOf[v.req.post]
        /\ InTime(v) /\ RightlySigned(v)
    BY DEF IInv, VerdictsJudged
  <2>3. v.req.ts = v.req.at /\ SecretAt[v.req.reg] = v.req.reg
    BY <2>2 DEF RightlySigned, sign_payload
  <2>4. Skew[v.req.reg] \in Int /\ Window \in Int
    BY <2>1, SkewAssumption, ClockAssumption
  <2> QED BY <2>1, <2>2, <2>3, <2>4 DEF InTime, OutsideWindow
<1> QED BY <1>1, Invariance, PTL

\* The receiver with the right secret never rejects a request that comes as it
\* was sent and was made inside the window by its clock, however long the loop
\* had waited for others before.
THEOREM RejectedAlwaysStale == Spec => []OnlyStaleRejected
<1>1. IInv => OnlyStaleRejected
  <2> SUFFICES ASSUME IInv, NEW v \in verdicts, ~v.ok, v.req \in wire,
                      SecretAt[v.req.reg] = v.req.reg
               PROVE  v.clock + Skew[v.req.reg] - v.req.at \notin (-Window)..Window
    BY DEF OnlyStaleRejected
  <2>1. /\ v.req.reg \in Regs /\ v.req.at \in Int /\ v.clock \in Int
    BY ClockAssumption DEF IInv, TypeOK, Verdicts, Requests, Times
  <2>2. /\ v.req.ts = v.req.at
        /\ v.req.sig = sign_payload(v.req.reg, v.req.at, v.req.post)
        /\ ~(InTime(v) /\ RightlySigned(v))
    BY DEF IInv, WireSigned, VerdictsJudged
  <2>3. OutsideWindow(v.clock + Skew[v.req.reg], v.req.at)
    BY <2>2 DEF RightlySigned, InTime, sign_payload
  <2>4. Skew[v.req.reg] \in Int /\ Window \in Int
    BY <2>1, SkewAssumption, ClockAssumption
  <2> QED BY <2>1, <2>3, <2>4 DEF OutsideWindow
<1> QED BY <1>1, Invariance, PTL

\* A row that says success stands for an accepted request.
THEOREM SuccessAlwaysAccepted == Spec => []SuccessMeansAccepted
<1>1. IInv => SuccessMeansAccepted
  BY DEF IInv
<1> QED BY <1>1, Invariance, PTL

\* A call that returned normally has left a row for every registration it sent
\* to that still exists.
THEOREM DoneAlwaysRecorded == Spec => []DoneIsRecorded
<1>1. IInv => DoneIsRecorded
  BY DEF IInv
<1> QED BY <1>1, Invariance, PTL

-----------------------------------------------------------------------------
(* Each registration is tried once: the safety half of EveryoneIsTried.     *)

\* One call of the dispatcher sends one request to a registration, and leaves
\* one row about it: there is no retry, and a late answer after a timeout does
\* not become a second, contradicting row.
TriedOnce ==
    /\ \A m, n \in wire : m.post = n.post /\ m.reg = n.reg => m = n
    /\ \A d, e \in rows : d.post = e.post /\ d.reg = e.reg => d = e

\* A registration that the query found leaves the loop only by being sent to,
\* whatever happens to the requests before it and to the tenant meanwhile.
NobodySkipped ==
    [][\A p \in Posts, r \in Regs :
          r \in todo[p] => r \in todo'[p] \/ Attempted(p, r)']_vars

\* Every step of the loop has fewer registrations before it, or stops waiting
\* for one, or ends the call: it may be kept waiting, it never turns for ever.
LoopAdvances ==
    [][\A p \in Posts : JobStep(p) =>
          \/ todo'[p] \subseteq todo[p] /\ todo'[p] # todo[p]
          \/ todo'[p] = todo[p] /\ cur[p] # {} /\ cur'[p] = {}
          \/ job'[p] \notin Live]_vars

\* A registration is in one place of a call at a time: still to visit, waited
\* for, or held with its result; and rows come from calls that have ended.
OncePlaced ==
    /\ \A m \in wire : m.reg \notin todo[m.post]
    /\ \A p \in Posts :
          /\ job[p] = "idle" => todo[p] = {} /\ held[p] = {}
          /\ job[p] \in Awaiting => cur[p] # {}
          /\ \A r \in cur[p] : r \notin todo[p]
          /\ \A d \in held[p] : d.reg \notin todo[p] \cup cur[p]
          /\ \A d, e \in held[p] : d.reg = e.reg => d = e
    /\ \A d \in rows : job[d.post] \notin Live \cup {"idle"}

\* The invariant behind it.
OInv == IInv /\ OncePlaced /\ TriedOnce

\* A step that leaves the calls, the requests and the rows alone.
LEMMA OnceFrame ==
  ASSUME OncePlaced, TriedOnce, UNCHANGED <<job, todo, cur, held, wire>>, rows' \subseteq rows
  PROVE  OncePlaced' /\ TriedOnce'
BY DEF OncePlaced, TriedOnce

\* The query finds what is to be visited; nothing has been sent.
LEMMA QueryOnce ==
  ASSUME OInv, NEW p \in Posts, Query(p)
  PROVE  OncePlaced' /\ TriedOnce'
<1>1. TypeOK /\ OneAtATime /\ AttemptsKept
  BY DEF OInv, IInv
<1>2. /\ job[p] = "idle" /\ job' \in [Posts -> JobPCs] /\ job'[p] \in {"looping", "done", "dead"}
      /\ UNCHANGED <<cur, held, wire, rows>>
      /\ todo' \in [Posts -> SUBSET Regs]
      /\ \A q \in Posts : q # p => job'[q] = job[q] /\ todo'[q] = todo[q]
  BY <1>1 DEF Query, JobGoes, dbVars, netVars, TypeOK, JobPCs, Live, Awaiting, RegistrationsOf
<1>3. cur[p] = {} /\ held[p] = {} /\ \A m \in wire : m.post # p
  BY <1>1, <1>2 DEF OInv, OncePlaced, OneAtATime, AttemptsKept, Attempted, TypeOK, Requests
<1>4. \A m \in wire : m.post \in Posts /\ m.reg \notin todo'[m.post]
  BY <1>1, <1>2, <1>3 DEF OInv, OncePlaced, TypeOK, Requests
<1>5. \A r \in rows : r.post \in Posts /\ job'[r.post] \notin Live \cup {"idle"}
  BY <1>1, <1>2 DEF OInv, OncePlaced, TypeOK, Deliveries
<1>6. ASSUME NEW q \in Posts
      PROVE  /\ job'[q] = "idle" => todo'[q] = {} /\ held'[q] = {}
             /\ job'[q] \in Awaiting => cur'[q] # {}
             /\ \A r \in cur'[q] : r \notin todo'[q]
             /\ \A x \in held'[q] : x.reg \notin todo'[q] \cup cur'[q]
             /\ \A x, y \in held'[q] : x.reg = y.reg => x = y
  BY <1>2, <1>3 DEF OInv, OncePlaced, Awaiting
<1>7. TriedOnce'
  BY <1>2 DEF OInv, TriedOnce
<1> QED BY <1>2, <1>4, <1>5, <1>6, <1>7 DEF OncePlaced

\* A request goes to a registration that was still to visit, so it is the first.
LEMMA SendOnce ==
  ASSUME OInv, NEW p \in Posts, Send(p)
  PROVE  OncePlaced' /\ TriedOnce'
<1>1. TypeOK /\ OneAtATime /\ OncePlaced /\ TriedOnce
  BY DEF OInv, IInv
<1>2. PICK r \in todo[p] :
         /\ wire' = wire \cup {[post |-> p, reg |-> r, ts |-> now, at |-> now,
                                sig |-> sign_payload(r, now, p)]}
         /\ todo' = [todo EXCEPT ![p] = @ \ {r}]
         /\ cur' = [cur EXCEPT ![p] = {r}]
  BY DEF Send, Stamp
<1>3. PICK n \in wire' : n.post = p /\ n.reg = r /\ wire' = wire \cup {n}
  BY <1>2
<1>4. /\ job[p] = "looping" /\ job'[p] = "waiting" /\ UNCHANGED <<held, rows>>
      /\ \A q \in Posts : q # p => job'[q] = job[q]
  BY <1>1 DEF Send, JobGoes, dbVars, TypeOK
<1>5. /\ todo'[p] = todo[p] \ {r} /\ cur'[p] = {r}
      /\ \A q \in Posts : q # p => todo'[q] = todo[q] /\ cur'[q] = cur[q]
  BY <1>1, <1>2 DEF TypeOK
<1>6. \A m \in wire : m.post \in Posts /\ ~(m.post = p /\ m.reg = r)
  BY <1>1 DEF OncePlaced, TypeOK, Requests
<1>7. \A m \in wire' : m.reg \notin todo'[m.post]
  BY <1>1, <1>3, <1>5, <1>6 DEF OncePlaced
<1>8. \A m, k \in wire' : m.post = k.post /\ m.reg = k.reg => m = k
  BY <1>1, <1>3, <1>6 DEF TriedOnce
<1>9. \A x \in rows : x.post \in Posts /\ job'[x.post] \notin Live \cup {"idle"}
  BY <1>1, <1>4 DEF OncePlaced, TypeOK, Deliveries, Live, Awaiting
<1>10. ASSUME NEW q \in Posts
       PROVE  /\ job'[q] = "idle" => todo'[q] = {} /\ held'[q] = {}
              /\ job'[q] \in Awaiting => cur'[q] # {}
              /\ \A u \in cur'[q] : u \notin todo'[q]
              /\ \A x \in held'[q] : x.reg \notin todo'[q] \cup cur'[q]
              /\ \A x, y \in held'[q] : x.reg = y.reg => x = y
  BY <1>1, <1>4, <1>5 DEF OncePlaced
<1> QED BY <1>1, <1>4, <1>7, <1>8, <1>9, <1>10 DEF OncePlaced, TriedOnce

\* An answer or an exception puts the one registration waited for, which has no
\* result yet, among the results.
LEMMA ResumeOnce ==
  ASSUME OInv, NEW p \in Posts, Answered(p) \/ Raised(p)
  PROVE  OncePlaced' /\ TriedOnce'
<1>1. TypeOK /\ OneAtATime /\ OncePlaced /\ TriedOnce
  BY DEF OInv, IInv
<1>2. PICK r \in cur[p] : \E s : Held(p, r, s)
  BY DEF Answered, Raised
<1>3. /\ job[p] \in Awaiting /\ job'[p] = "looping" /\ UNCHANGED <<todo, wire, rows>>
      /\ \A q \in Posts : q # p => job'[q] = job[q]
      /\ cur'[p] = {} /\ \A q \in Posts : q # p => cur'[q] = cur[q]
  BY <1>1 DEF Answered, Raised, JobGoes, dbVars, netVars, TypeOK
<1>4. PICK n : n.reg = r /\ held'[p] = held[p] \cup {n}
               /\ \A q \in Posts : q # p => held'[q] = held[q]
  <2>1. PICK s : Held(p, r, s)
    BY <1>2
  <2> DEFINE d == [post |-> p, reg |-> r, status |-> s]
  <2>2. d.reg = r /\ held' = [held EXCEPT ![p] = @ \cup {d}]
    BY <2>1 DEF Held
  <2> HIDE DEF d
  <2> QED BY <1>1, <2>2 DEF TypeOK
<1>5. \A x \in held[p] : x.reg # r
  BY <1>1, <1>2 DEF OncePlaced
<1>6. r \notin todo[p]
  BY <1>1, <1>2 DEF OncePlaced
<1>7. \A x \in rows : x.post \in Posts /\ job'[x.post] \notin Live \cup {"idle"}
  BY <1>1, <1>3 DEF OncePlaced, TypeOK, Deliveries, Live, Awaiting
<1>8. ASSUME NEW q \in Posts
      PROVE  /\ job'[q] = "idle" => todo'[q] = {} /\ held'[q] = {}
             /\ job'[q] \in Awaiting => cur'[q] # {}
             /\ \A u \in cur'[q] : u \notin todo'[q]
             /\ \A x \in held'[q] : x.reg \notin todo'[q] \cup cur'[q]
             /\ \A x, y \in held'[q] : x.reg = y.reg => x = y
  BY <1>1, <1>3, <1>4, <1>5, <1>6 DEF OncePlaced, Awaiting
<1>9. (\A m \in wire : m.reg \notin todo[m.post])' /\ TriedOnce'
  BY <1>1, <1>3 DEF OncePlaced, TriedOnce
<1> QED BY <1>3, <1>7, <1>8, <1>9 DEF OncePlaced

\* The commit adds the first rows of its call.
LEMMA CommitOnce ==
  ASSUME OInv, NEW p \in Posts, Commit(p)
  PROVE  OncePlaced' /\ TriedOnce'
<1>1. TypeOK /\ OncePlaced /\ TriedOnce /\ HeldAreReal
  BY DEF OInv, IInv
<1>2. /\ job[p] = "looping" /\ job'[p] \in {"done", "dead"}
      /\ UNCHANGED <<todo, cur, held, wire>>
      /\ \A q \in Posts : q # p => job'[q] = job[q]
      /\ rows' \in {rows, rows \cup held[p]}
  BY <1>1 DEF Commit, JobGoes, netVars, TypeOK
<1>3. \A x \in rows : x.post \in Posts /\ x.post # p
  BY <1>1, <1>2 DEF OncePlaced, TypeOK, Deliveries, Live, Awaiting
<1>4. \A x \in held[p] : x.post = p
  BY <1>1 DEF HeldAreReal
<1>5. \A x \in rows' : job'[x.post] \notin Live \cup {"idle"}
  BY <1>1, <1>2, <1>3, <1>4 DEF OncePlaced, Live, Awaiting
<1>6. \A x, y \in rows' : x.post = y.post /\ x.reg = y.reg => x = y
  BY <1>1, <1>2, <1>3, <1>4 DEF TriedOnce, OncePlaced
<1>7. ASSUME NEW q \in Posts
      PROVE  /\ job'[q] = "idle" => todo'[q] = {} /\ held'[q] = {}
             /\ job'[q] \in Awaiting => cur'[q] # {}
             /\ \A u \in cur'[q] : u \notin todo'[q]
             /\ \A x \in held'[q] : x.reg \notin todo'[q] \cup cur'[q]
             /\ \A x, y \in held'[q] : x.reg = y.reg => x = y
  BY <1>1, <1>2 DEF OncePlaced, Awaiting
<1> QED BY <1>1, <1>2, <1>5, <1>6, <1>7 DEF OncePlaced, TriedOnce

\* The registration whose answer begins to arrive stays the one waited for.
LEMMA TrickleOnce ==
  ASSUME OInv, NEW p \in Posts, Trickle(p)
  PROVE  OncePlaced' /\ TriedOnce'
<1>1. TypeOK /\ OncePlaced /\ TriedOnce
  BY DEF OInv, IInv
<1>2. /\ UNCHANGED <<todo, cur, held, wire, rows>>
      /\ job[p] = "waiting"
      /\ \A q \in Posts : job'[q] = IF q = p THEN "dripping" ELSE job[q]
  BY <1>1 DEF Trickle, JobGoes, dbVars, netVars, TypeOK
<1>3. \A x \in rows : x.post \in Posts /\ x.post # p
  BY <1>1, <1>2 DEF OncePlaced, TypeOK, Deliveries, Live, Awaiting
<1> QED BY <1>1, <1>2, <1>3 DEF OncePlaced, TriedOnce, Live, Awaiting

\* A restart ends calls and moves nothing else.
LEMMA CrashOnce ==
  ASSUME OInv, Crash
  PROVE  OncePlaced' /\ TriedOnce'
<1>1. TypeOK /\ OncePlaced /\ TriedOnce
  BY DEF OInv, IInv
<1>2. /\ UNCHANGED <<todo, cur, held, wire, rows>>
      /\ \A q \in Posts : job'[q] = IF job[q] \in Live THEN "lost" ELSE job[q]
  BY DEF Crash, dbVars, netVars
<1>3. \A x \in rows : x.post \in Posts
  BY <1>1 DEF TypeOK, Deliveries
<1> QED BY <1>1, <1>2, <1>3 DEF OncePlaced, TriedOnce, Live, Awaiting

\* No step places a registration twice.
LEMMA OnceStep == ASSUME OInv, [Next]_vars PROVE OncePlaced' /\ TriedOnce'
<1>1. ASSUME \/ \E r \in Regs : CreateRegistration(r)
             \/ \E m \in wire : Receive(m)
             \/ \E t \in Tenants : DeleteTenant(t)
             \/ Tick \/ UNCHANGED vars
      PROVE  UNCHANGED <<job, todo, cur, held, wire>> /\ rows' \subseteq rows
  BY <1>1 DEF CreateRegistration, Receive, DeleteTenant, Tick, vars, dbVars, jobVars, netVars
<1> QED BY <1>1, OnceFrame, QueryOnce, SendOnce, ResumeOnce, CommitOnce, TrickleOnce, CrashOnce
        DEF Next, JobStep, OInv

\* In every state of a call each registration has one place.
THEOREM PlacedOnce == Spec => []OInv
<1>1. Init => OncePlaced /\ TriedOnce
  BY DEF Init, OncePlaced, TriedOnce, Awaiting
<1>2. IInv /\ OncePlaced /\ TriedOnce /\ [Next]_vars => OncePlaced' /\ TriedOnce'
  BY OnceStep DEF OInv
<1>3. IInv /\ OncePlaced /\ TriedOnce => OInv
  BY DEF OInv
<1> QED BY <1>1, <1>2, <1>3, Invariance, PTL DEF Spec

\* One event is sent to a registration at most once and has at most one row
\* there, whatever the receiver, the network and the database do.
THEOREM TriedAtMostOnce == Spec => []TriedOnce
<1>1. OInv => TriedOnce
  BY DEF OInv
<1> QED BY <1>1, PlacedOnce, PTL

\* Nobody the query found is left out of the loop.
THEOREM NobodyEverSkipped == Spec => NobodySkipped
<1>1. ASSUME OInv, [Next]_vars
      PROVE  \A p \in Posts, r \in Regs : r \in todo[p] => r \in todo'[p] \/ Attempted(p, r)'
  <2> SUFFICES ASSUME NEW p \in Posts, NEW r \in todo[p], r \notin todo'[p]
               PROVE  Attempted(p, r)'
    BY DEF OInv, IInv, TypeOK
  <2>1. TypeOK /\ OncePlaced
    BY <1>1 DEF OInv, IInv
  <2>2. todo' # todo
    OBVIOUS
  <2>3. PICK q \in Posts : Query(q) \/ Send(q)
    BY <1>1, <2>2 DEF Next, JobStep, CreateRegistration, Trickle, Answered, Raised, Commit, Receive,
                      DeleteTenant, Tick, Crash, vars, dbVars, jobVars, netVars
  <2>4. CASE Query(q)
    <3>1. p = q
      BY <2>1, <2>4 DEF Query, TypeOK
    <3> QED BY <2>1, <2>4, <3>1 DEF Query, OncePlaced
  <2>5. CASE Send(q)
    <3>1. PICK u \in todo[q] :
             /\ wire' = wire \cup {[post |-> q, reg |-> u, ts |-> now, at |-> now,
                                    sig |-> sign_payload(u, now, q)]}
             /\ todo' = [todo EXCEPT ![q] = @ \ {u}]
      BY <2>5 DEF Send, Stamp
    <3>2. p = q /\ r = u
      BY <2>1, <3>1 DEF TypeOK
    <3> DEFINE m == [post |-> q, reg |-> u, ts |-> now, at |-> now, sig |-> sign_payload(u, now, q)]
    <3>3. m \in wire' /\ m.post = q /\ m.reg = u
      BY <3>1
    <3> QED BY <3>2, <3>3 DEF Attempted
  <2> QED BY <2>3, <2>4, <2>5
<1> QED BY <1>1, PlacedOnce, PTL DEF Spec, NobodySkipped

\* The loop of a call has only so many steps: at most two for each registration
\* the query found, and the commit.
THEOREM LoopAlwaysAdvances == Spec => LoopAdvances
<1>1. ASSUME OInv, [Next]_vars
      PROVE  \A p \in Posts : JobStep(p) =>
                \/ todo'[p] \subseteq todo[p] /\ todo'[p] # todo[p]
                \/ todo'[p] = todo[p] /\ cur[p] # {} /\ cur'[p] = {}
                \/ job'[p] \notin Live
  <2> SUFFICES ASSUME NEW p \in Posts, JobStep(p)
               PROVE  \/ todo'[p] \subseteq todo[p] /\ todo'[p] # todo[p]
                      \/ todo'[p] = todo[p] /\ cur[p] # {} /\ cur'[p] = {}
                      \/ job'[p] \notin Live
    OBVIOUS
  <2>1. TypeOK /\ OncePlaced
    BY <1>1 DEF OInv, IInv
  <2>2. CASE Send(p)
    BY <2>1, <2>2 DEF Send, TypeOK
  <2>3. CASE Answered(p) \/ Raised(p)
    BY <2>1, <2>3 DEF Answered, Raised, OncePlaced, TypeOK
  <2>4. CASE Commit(p)
    BY <2>1, <2>4 DEF Commit, JobGoes, TypeOK, Live, Awaiting
  <2> QED BY <2>2, <2>3, <2>4 DEF JobStep
<1> QED BY <1>1, PlacedOnce, PTL DEF Spec, LoopAdvances
=============================================================================
