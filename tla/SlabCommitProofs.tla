-------------------------- MODULE SlabCommitProofs --------------------------
(***************************************************************************)
(* The safety of the artifact commit protocol, for any number of ranks,    *)
(* any number of sessions in any modes, any faults and any number of       *)
(* kills.                                                                  *)
(***************************************************************************)
EXTENDS SlabCommit, TLAPS

-----------------------------------------------------------------------------
(* The inductive invariant: the protocol *)

Came(s, m, r) == came[s][m][r] # "no"
CompleteIn(s, m) == \A q \in Rank : Came(s, m, q)
WellIn(s, m) == \A q \in Rank : came[s][m][q] = "well"
RefusedIn(s, m) == CompleteIn(s, m) /\ \E q \in Rank : came[s][m][q] = "failed"

\* Rank r is in session s, at one of the labels.
AtIn(r, s, labels) == session[r] = s /\ pc[r] \in labels

\* Rank zero's own places, and those of a rank that holds the path.
RootPlace == {"preflight", "checking", "replacing", "reopening"} \cup Publishing
Inside == {"H5Dcreate", "left", "zeros", "initialize_receipt", "writing", "H5Dwrite", "closing", "H5Fclose"}

\* The order in which a rank goes through a session.
Nr(label) ==
    CASE label \in {"preflight", "checking"} -> 0
      [] label = "SlabIO.open" -> 1          [] label = "replacing" -> 2
      [] label = "replace_inode" -> 3        [] label = "H5Fopen" -> 4
      [] label \in {"H5Dcreate", "left"} -> 5 [] label = "zeros" -> 6
      [] label = "initialize_receipt" -> 7   [] label = "writing" -> 8
      [] label = "H5Dwrite" -> 9             [] label = "closing" -> 10
      [] label = "H5Fclose" -> 11            [] label = "data_close" -> 12
      [] label = "materializing" -> 13       [] label = "materialized" -> 14
      [] label = "metadata_commit" -> 16     [] OTHER -> 15

\* What lies behind a rank that has come to a label of session s: the meetings the
\* label comes after are over, and were not refused.
GateOf(s, x) ==
    /\ x \in {"replacing", "replace_inode"} => modes[s] = "w" /\ WellIn(s, "SlabIO.open")
    /\ x = "H5Fopen" =>
         WellIn(s, "SlabIO.open") /\ (modes[s] = "w" => CompleteIn(s, "replace_inode"))
    /\ x \in {"H5Dcreate", "left"} => modes[s] # "r" /\ CompleteIn(s, "H5Fopen")
    /\ x = "zeros" => CompleteIn(s, "H5Dcreate")
    /\ x = "initialize_receipt" => CompleteIn(s, "zeros")
    /\ x \in {"writing", "H5Dwrite"} => WellIn(s, "initialize_receipt")
    /\ x \in {"closing", "H5Fclose"} =>
         \/ modes[s] = "r" /\ CompleteIn(s, "H5Fopen")
         \/ /\ modes[s] # "r" /\ CompleteIn(s, "initialize_receipt")
            /\ RefusedIn(s, "initialize_receipt") \/ CompleteIn(s, "H5Dwrite")
    /\ x = "data_close" => CompleteIn(s, "H5Fclose")
    /\ x \in {"materializing", "materialized"} => modes[s] # "r" /\ WellIn(s, "data_close")
    /\ x \in {"reopening", "metadata_commit"} \cup Publishing => WellIn(s, "materialized")

\* Nothing has happened in a session a rank has not begun; the one it is in has
\* not ended for it.
SessionsOK ==
    /\ \A r \in Rank, s \in Session : s > session[r] =>
         outcome[s][r] = "none" /\ \A m \in Meeting : ~Came(s, m, r)
    /\ \A r \in Rank : pc[r] # "ended" =>
         session[r] \in Session /\ outcome[session[r]][r] = "none"

\* A rank ahead of another has ended all the sessions in between, the one the
\* other is in included.
Ahead ==
    \A r, q \in Rank, s \in Session :
        /\ s > session[r] \/ (s = session[r] /\ pc[r] # "ended")
        /\ s < session[q] \/ (s = session[q] /\ pc[q] = "ended")
        => outcome[s][q] # "none"

\* A rank has come to the meeting it is in, and to none that is ahead of it.
LabelsFor(r) ==
    /\ pc[r] \in Meeting => Came(session[r], pc[r], r)
    /\ pc[r] \in RootPlace => r = 0
    /\ pc[r] # "ended" => \A m \in Meeting : Came(session[r], m, r) => Nr(m) <= Nr(pc[r])
LabelsOK == \A r \in Rank : LabelsFor(r)

GatesOK ==
    \A s \in Session, r \in Rank :
        /\ \A m \in Meeting : Came(s, m, r) => GateOf(s, m)
        /\ session[r] = s /\ pc[r] # "ended" => GateOf(s, pc[r])

\* Rank zero could not unlink; rank r found nothing to read.
NotUnlinked(s, r) ==
    r = 0 /\ modes[s] = "w" /\ WellIn(s, "SlabIO.open") /\ ~Came(s, "replace_inode", 0)
Missed(s, r) ==
    /\ modes[s] = "r" /\ ~RefusedIn(s, "SlabIO.open")
    /\ outcome[s][r] = "raised" /\ ~Came(s, "H5Fclose", r)

\* What ended a session for a rank.
OutcomesOK ==
    \A s \in Session, r \in Rank :
        /\ outcome[s][r] = "ok" =>
             IF modes[s] = "r" THEN WellIn(s, "data_close") ELSE WellIn(s, "metadata_commit")
        /\ outcome[s][r] = "raised" =>
             \/ \E m \in {"SlabIO.open", "data_close", "materialized", "metadata_commit"} :
                    RefusedIn(s, m)
             \/ NotUnlinked(s, r)
             \/ Missed(s, r) /\ CompleteIn(s, "H5Fopen")

\* The part of it that speaks of labels and meetings alone.
Protocol == SessionsOK /\ Ahead /\ LabelsOK /\ GatesOK /\ OutcomesOK

-----------------------------------------------------------------------------
(* The inductive invariant: the file *)

\* To one who reads, the file is there on every rank or on none.
OpenedIn(s, r) == Came(s, "H5Fclose", r) \/ AtIn(r, s, {"closing"})
OpensAlike ==
    \A s \in Session, r, q \in Rank : modes[s] = "r" =>
        /\ OpenedIn(s, r) => ~Missed(s, q)
        /\ AtIn(q, s, {"H5Fopen"}) =>
             (OpenedIn(s, r) => exists) /\ (Missed(s, r) => ~exists)

\* A file that is not there holds nothing; one that is there for a writer stays.
FileOK ==
    /\ ~exists => receipt = "none" /\ ~unclosed /\ attr = Nothing /\ \A r \in Rank : block[r] = Nothing
    /\ \A s \in Session, r \in Rank : session[0] = s /\ Came(s, "H5Dcreate", r) => exists
    /\ pc[0] = "checking" => exists

\* A rank that has no error to report has written its part (and a native close may
\* have lost it since), and one that could not
\* initialize the receipt reports it when it closes.
PartFor(r) ==
    LET s == session[r] IN
        /\ pc[r] \in {"closing", "H5Fclose"} /\ ~error[r] /\ Came(s, "H5Dwrite", r) =>
             block[r] = s \/ unclosed
        /\ /\ pc[r] \in {"initialize_receipt", "closing", "H5Fclose"}
           /\ came[s]["initialize_receipt"][r] = "failed"
           => error[r]
PartIn(s, r) ==
    /\ /\ session[0] = s /\ came[s]["data_close"][r] = "well" /\ Came(s, "H5Dwrite", r)
       => block[r] = s \/ unclosed
    /\ came[s]["initialize_receipt"][r] = "failed" => came[s]["data_close"][r] # "well"
PartsOK == \A r \in Rank : PartFor(r) /\ \A s \in Session : PartIn(s, r)

\* From rank zero's initialization of the receipt to its commit the receipt is 0, if a
\* native close has not lost it.
Zeroed == {"initialize_receipt", "writing", "H5Dwrite", "closing", "H5Fclose", "data_close",
           "materializing", "materialized", "reopening", "stamping", "flushing", "committing"}
CommittedBy(s) == receipt = "1" /\ attr = s /\ (Whole \/ unclosed)
ReceiptOK ==
    /\ CommittedIsWhole
    /\ pc[0] \in Zeroed /\ came[session[0]]["initialize_receipt"][0] = "well" =>
         receipt = "0" \/ unclosed
    /\ pc[0] = "committing" => attr = session[0]
    /\ pc[0] = "releasing" => CommittedBy(session[0])
    /\ \A s \in Session : session[0] = s /\ came[s]["metadata_commit"][0] = "well" => CommittedBy(s)

\* Who holds the path.
Serial == {"checking"} \cup Publishing
HandlesOK ==
    /\ serial = IF pc[0] \in Serial THEN 1 ELSE 0
    /\ \A r \in native : pc[r] \in Inside

IInv == TypeOK /\ Protocol /\ OpensAlike /\ FileOK /\ PartsOK /\ ReceiptOK /\ HandlesOK

-----------------------------------------------------------------------------
(* What a step of one rank does to the protocol *)

\* Rank zero is a rank; what marks data that is no session's is none.
LEMMA Constants ==
    /\ 0 \in Rank /\ 0 \notin Session
    /\ Torn \notin Session /\ Nothing \notin Session /\ Before \notin Session
  BY MeetingsAssumption DEF Rank, Session, Torn, Nothing, Before

\* The order is one of numbers.
LEMMA NrIsNat == \A x : Nr(x) \in Nat
  BY DEF Nr

\* To come to a meeting: the label, and one entry of came.
LEMMA ComeEffect ==
    ASSUME TypeOK, NEW s \in Session, NEW r \in Rank, NEW m \in Meeting, NEW f \in BOOLEAN,
           ComeIn(s, r, m, f)
    PROVE  /\ came' \in [Session -> [Meeting -> [Rank -> {"no", "well", "failed"}]]]
           /\ pc' \in [Rank -> {"ended"} \cup Place \cup Meeting]
           /\ pc'[r] = m /\ \A q \in Rank : q # r => pc'[q] = pc[q]
           /\ came'[s][m][r] = IF f THEN "failed" ELSE "well"
           /\ \A u \in Session, n \in Meeting, q \in Rank :
                u # s \/ n # m \/ q # r => came'[u][n][q] = came[u][n][q]
  BY DEF TypeOK, RanksOK, ComeIn, Goto

\* The same of the session a rank is in.
LEMMA ComeOwn ==
    ASSUME TypeOK, NEW r \in Rank, session[r] \in Session, NEW m \in Meeting, NEW f \in BOOLEAN,
           Come(r, m, f)
    PROVE  /\ came' \in [Session -> [Meeting -> [Rank -> {"no", "well", "failed"}]]]
           /\ pc' \in [Rank -> {"ended"} \cup Place \cup Meeting]
           /\ pc'[r] = m
           /\ came'[session[r]][m][r] = IF f THEN "failed" ELSE "well"
           /\ \A n \in Meeting : n # m => came'[session[r]][n][r] = came[session[r]][n][r]
<1>1. ComeIn(session[r], r, m, f)
  BY DEF Come
<1> QED BY <1>1, ComeEffect

\* To go to another label without a meeting.
LEMMA MoveEffect ==
    ASSUME TypeOK, NEW r \in Rank, NEW label \in Place, Goto(r, label)
    PROVE  /\ pc' \in [Rank -> {"ended"} \cup Place \cup Meeting]
           /\ pc'[r] = label /\ \A q \in Rank : q # r => pc'[q] = pc[q]
  BY DEF TypeOK, RanksOK, Goto

\* To end a session.
LEMMA EndEffect ==
    ASSUME TypeOK, NEW r \in Rank, session[r] \in Session, NEW how \in {"ok", "raised"}, End(r, how)
    PROVE  /\ outcome' \in [Session -> [Rank -> {"none", "ok", "raised"}]]
           /\ pc' \in [Rank -> {"ended"} \cup Place \cup Meeting]
           /\ pc'[r] = "ended" /\ \A q \in Rank : q # r => pc'[q] = pc[q]
           /\ outcome'[session[r]][r] = how
           /\ \A u \in Session, q \in Rank :
                u # session[r] \/ q # r => outcome'[u][q] = outcome[u][q]
           /\ came' = came
  BY DEF TypeOK, RanksOK, End, Goto

\* What a step of rank r within its session leaves alone: the other ranks, the other
\* sessions, and what r has already told a meeting.
Local(r) ==
    /\ pc[r] # "ended"
    /\ session' = session /\ modes' = modes
    /\ \A q \in Rank : q # r => pc'[q] = pc[q]
    /\ \A s \in Session, m \in Meeting, q \in Rank :
         s # session[r] \/ q # r \/ Came(s, m, q) => came'[s][m][q] = came[s][m][q]
    /\ \A s \in Session, q \in Rank :
         s # session[r] \/ q # r => outcome'[s][q] = outcome[s][q]
    /\ pc'[r] = "ended" <=> outcome'[session[r]][r] # "none"

\* What was said in a meeting stays said.
LEMMA StaysSaid ==
    ASSUME TypeOK, NEW r \in Rank, Local(r)
    PROVE  \A s \in Session, m \in Meeting :
             /\ \A q \in Rank : Came(s, m, q) => came'[s][m][q] = came[s][m][q]
             /\ CompleteIn(s, m) => CompleteIn(s, m)'
             /\ WellIn(s, m) => WellIn(s, m)'
             /\ RefusedIn(s, m) => RefusedIn(s, m)'
  BY DEF Local, Came, WellIn, RefusedIn, CompleteIn

\* So does what lies behind a label.
LEMMA GateStays ==
    ASSUME TypeOK, NEW r \in Rank, Local(r), NEW s \in Session, NEW x, GateOf(s, x)
    PROVE  GateOf(s, x)'
<1>1. \A m \in Meeting : /\ CompleteIn(s, m) => CompleteIn(s, m)'
                         /\ WellIn(s, m) => WellIn(s, m)'
                         /\ RefusedIn(s, m) => RefusedIn(s, m)'
  BY StaysSaid
<1>2. modes' = modes
  BY DEF Local
<1> QED BY <1>1, <1>2 DEF GateOf, Meeting, Publishing

\* What a meeting that is over decided.
LEMMA MetMeans ==
    ASSUME TypeOK, NEW r \in Rank, NEW m \in Meeting, session[r] \in Session, Met(r, m)
    PROVE  /\ CompleteIn(session[r], m)
           /\ Refused(r, m) => RefusedIn(session[r], m)
           /\ ~Refused(r, m) => WellIn(session[r], m)
  BY DEF TypeOK, RanksOK, Met, Complete, Refused, At, RefusedIn, CompleteIn, WellIn, Came

\* The order of the sessions is that of the ranks' own progress.
LEMMA LocalKeepsOrder ==
    ASSUME TypeOK, SessionsOK, Ahead, NEW r \in Rank, Local(r)
    PROVE  SessionsOK' /\ Ahead'
<1> USE DEF RanksOK
<1>1. session[r] \in Session /\ outcome[session[r]][r] = "none"
  BY DEF SessionsOK, Local
<1>2. SessionsOK'
  <2>1. ASSUME NEW q \in Rank, NEW s \in Session, s > session'[q]
        PROVE  outcome'[s][q] = "none" /\ \A m \in Meeting : ~Came(s, m, q)'
    <3>1. session'[q] = session[q] /\ (s # session[r] \/ q # r)
      BY <2>1, MeetingsAssumption DEF TypeOK, Local, Session
    <3>2. outcome[s][q] = "none" /\ \A m \in Meeting : ~Came(s, m, q)
      BY <3>1, <2>1 DEF SessionsOK
    <3> QED BY <3>1, <3>2 DEF Local, Came
  <2>2. ASSUME NEW q \in Rank, pc'[q] # "ended"
        PROVE  session'[q] \in Session /\ outcome'[session'[q]][q] = "none"
    BY <2>2, <1>1 DEF SessionsOK, Local
  <2> QED BY <2>1, <2>2 DEF SessionsOK
<1>3. Ahead'
  <2> SUFFICES ASSUME NEW q \in Rank, NEW p \in Rank, NEW s \in Session,
                      s > session[q] \/ (s = session[q] /\ pc'[q] # "ended"),
                      s < session[p] \/ (s = session[p] /\ pc'[p] = "ended")
               PROVE  outcome'[s][p] # "none"
    BY DEF Ahead, Local
  <2>1. CASE p = r /\ s = session[r]
    BY <2>1, <1>1, MeetingsAssumption DEF TypeOK, Local, Session
  <2>2. CASE p = r /\ s # session[r]
    BY <2>2, <1>1 DEF Ahead, Local
  <2>3. CASE p # r /\ q # r
    BY <2>3 DEF Ahead, Local
  <2>4. CASE p # r /\ q = r
    BY <2>4, <1>1 DEF Ahead, Local
  <2> QED BY <2>1, <2>2, <2>3, <2>4
<1> QED BY <1>2, <1>3

\* Where a rank may go.
MayReach(r, x) ==
    /\ Nr(pc[r]) <= Nr(x)
    /\ x \in RootPlace => r = 0
    /\ GateOf(session[r], x)

\* A rank that may come to a meeting and does.
LEMMA ComeKeepsProtocol ==
    ASSUME TypeOK, Protocol, NEW r \in Rank, NEW m \in Meeting, NEW f \in BOOLEAN,
           pc[r] # "ended", MayReach(r, m), Nr(pc[r]) < Nr(m),
           Come(r, m, f), UNCHANGED <<session, modes, outcome>>
    PROVE  Local(r) /\ Protocol'
<1> DEFINE s == session[r]
           v == IF f THEN "failed" ELSE "well"
<1>1. s \in Session /\ outcome[s][r] = "none" /\ session' = session /\ modes' = modes
      /\ outcome' = outcome
  BY DEF Protocol, SessionsOK
<1>2. /\ pc'[r] = m /\ \A q \in Rank : q # r => pc'[q] = pc[q]
      /\ came'[s][m][r] = v
      /\ \A u \in Session, n \in Meeting, q \in Rank :
           u # s \/ n # m \/ q # r => came'[u][n][q] = came[u][n][q]
  BY <1>1, ComeEffect DEF Come
<1>0. ~Came(s, m, r)
  BY NrIsNat DEF Protocol, LabelsOK, LabelsFor
<1>3. Local(r)
  BY <1>0, <1>1, <1>2 DEF Local, Meeting
<1>4. SessionsOK' /\ Ahead'
  BY <1>3, LocalKeepsOrder DEF Protocol
<1>6. LabelsOK'
  <2> SUFFICES ASSUME NEW q \in Rank
               PROVE  LabelsFor(q)'
    BY DEF LabelsOK
  <2>1. CASE q = r
    <3>1. \A n \in Meeting : Came(s, n, r) => Nr(n) <= Nr(m)
      BY NrIsNat DEF Protocol, LabelsOK, LabelsFor, MayReach
    <3>2. m \notin RootPlace
      BY DEF RootPlace, Publishing, Meeting
    <3> QED BY <2>1, <3>1, <3>2, <1>1, <1>2, NrIsNat DEF LabelsFor, Came
  <2>2. CASE q # r
    <3>1. session'[q] = session[q] /\ pc'[q] = pc[q] /\ LabelsFor(q)
      BY <2>2, <1>1, <1>2 DEF Protocol, LabelsOK
    <3>2. "ended" \notin Meeting \cup RootPlace
      BY DEF Meeting, RootPlace, Publishing
    <3>3. pc[q] # "ended" => session[q] \in Session
      BY DEF Protocol, SessionsOK
    <3>4. \A w \in Session, n \in Meeting : Came(w, n, q)' <=> Came(w, n, q)
      BY <2>2, <1>2 DEF Came
    <3>5. CASE pc[q] = "ended"
      BY <3>1, <3>2, <3>5 DEF LabelsFor
    <3>6. CASE pc[q] # "ended"
      <4>1. PICK w \in Session : w = session[q]
        BY <3>3, <3>6
      <4>2. \A n \in Meeting : Came(session[q], n, q)' <=> Came(session[q], n, q)
        BY <4>1, <3>1, <3>4 DEF Came
      <4> QED BY <4>2, <3>1, <3>6 DEF LabelsFor, Came
    <3> QED BY <3>5, <3>6
  <2> QED BY <2>1, <2>2
<1>7. GatesOK'
  <2>1. ASSUME NEW u \in Session, NEW q \in Rank, NEW n \in Meeting, Came(u, n, q)'
        PROVE  GateOf(u, n)'
    <3>1. GateOf(u, n)
      BY <2>1, <1>1, <1>2 DEF Protocol, GatesOK, MayReach, Came
    <3> QED BY <3>1, <1>3, GateStays
  <2>2. ASSUME NEW u \in Session, NEW q \in Rank, session'[q] = u, pc'[q] # "ended"
        PROVE  GateOf(u, pc[q])'
    <3>0. PICK x : x = pc'[q]
      OBVIOUS
    <3>1. GateOf(u, x)
      BY <2>2, <3>0, <1>1, <1>2 DEF Protocol, GatesOK, MayReach
    <3>2. GateOf(u, x)'
      BY <3>1, <1>3, GateStays
    <3> QED BY <3>0, <3>2 DEF GateOf
  <2> QED BY <2>1, <2>2 DEF GatesOK
<1>8. OutcomesOK'
  <2> SUFFICES ASSUME NEW u \in Session, NEW q \in Rank
               PROVE  /\ outcome[u][q] = "ok" =>
                           IF modes[u] = "r" THEN WellIn(u, "data_close")' ELSE WellIn(u, "metadata_commit")'
                      /\ outcome[u][q] = "raised" =>
                           \/ \E n \in {"SlabIO.open", "data_close", "materialized", "metadata_commit"} :
                                  RefusedIn(u, n)'
                           \/ NotUnlinked(u, q)'
                           \/ Missed(u, q)' /\ CompleteIn(u, "H5Fopen")'
    BY <1>1 DEF OutcomesOK
  <2>1. CASE outcome[u][q] = "ok"
    BY <2>1, <1>3, StaysSaid DEF Protocol, OutcomesOK, Meeting
  <2>2. CASE outcome[u][q] = "raised"
    <3>1. u # s \/ q # r
      BY <2>2, <1>1
    <3>2. CASE \E n \in {"SlabIO.open", "data_close", "materialized", "metadata_commit"} : RefusedIn(u, n)
      BY <3>2, <2>2, <1>3, StaysSaid DEF Meeting
    <3>3. CASE NotUnlinked(u, q)
      <4>1. WellIn(u, "SlabIO.open")'
        BY <3>3, <1>3, StaysSaid DEF NotUnlinked, Meeting
      <4>2. q = 0 /\ modes[u] = "w" /\ came'[u]["replace_inode"][0] = came[u]["replace_inode"][0]
        BY <3>3, <3>1, <1>2, Constants DEF NotUnlinked, Meeting
      <4>3. NotUnlinked(u, q)'
        BY <4>1, <4>2, <3>3, <1>1 DEF NotUnlinked, Came
      <4> QED BY <4>3, <2>2
    <3>4. CASE Missed(u, q) /\ CompleteIn(u, "H5Fopen")
      <4>1. ~RefusedIn(u, "SlabIO.open")'
        <5>1. WellIn(u, "SlabIO.open")
          BY <3>4, Constants DEF Protocol, GatesOK, GateOf, CompleteIn, Meeting
        <5>2. WellIn(u, "SlabIO.open")'
          BY <5>1, <1>3, StaysSaid DEF Meeting
        <5> QED BY <5>2 DEF WellIn, RefusedIn
      <4>2. CompleteIn(u, "H5Fopen")'
        BY <3>4, <1>3, StaysSaid DEF Meeting
      <4> QED BY <4>1, <4>2, <3>4, <3>1, <1>1, <1>2, <2>2 DEF Missed, Came, Meeting
    <3> QED BY <2>2, <3>2, <3>3, <3>4 DEF Protocol, OutcomesOK
  <2> QED BY <2>1, <2>2
<1> QED BY <1>3, <1>4, <1>6, <1>7, <1>8 DEF Protocol

\* A rank that may go to a place and does.
LEMMA MoveKeepsProtocol ==
    ASSUME TypeOK, Protocol, NEW r \in Rank, NEW label \in Place,
           pc[r] # "ended", MayReach(r, label),
           Goto(r, label), UNCHANGED <<session, modes, came, outcome>>
    PROVE  Local(r) /\ Protocol'
<1> DEFINE s == session[r]
<1>1. s \in Session /\ outcome[s][r] = "none" /\ session' = session /\ modes' = modes
      /\ outcome' = outcome /\ came' = came
  BY DEF Protocol, SessionsOK
<1>2. pc'[r] = label /\ \A q \in Rank : q # r => pc'[q] = pc[q]
  BY MoveEffect
<1>0. label # "ended" /\ label \notin Meeting
  BY DEF Place, Meeting
<1>3. Local(r)
  BY <1>0, <1>1, <1>2 DEF Local
<1>4. SessionsOK' /\ Ahead'
  BY <1>3, LocalKeepsOrder DEF Protocol
<1>6. LabelsOK'
  <2> SUFFICES ASSUME NEW q \in Rank
               PROVE  LabelsFor(q)'
    BY DEF LabelsOK
  <2>1. CASE q = r
    <3>1. \A n \in Meeting : Came(s, n, r) => Nr(n) <= Nr(label)
      BY NrIsNat DEF Protocol, LabelsOK, LabelsFor, MayReach
    <3> QED BY <2>1, <3>1, <1>0, <1>1, <1>2 DEF LabelsFor, Came, MayReach
  <2>2. CASE q # r
    BY <2>2, <1>1, <1>2 DEF Protocol, LabelsOK, LabelsFor, SessionsOK, Came, Meeting
  <2> QED BY <2>1, <2>2
<1>7. GatesOK'
  <2>1. ASSUME NEW u \in Session, NEW q \in Rank, NEW n \in Meeting, Came(u, n, q)'
        PROVE  GateOf(u, n)'
    <3>1. GateOf(u, n)
      BY <2>1, <1>1 DEF Protocol, GatesOK, Came
    <3> QED BY <3>1, <1>3, GateStays
  <2>2. ASSUME NEW u \in Session, NEW q \in Rank, session'[q] = u, pc'[q] # "ended"
        PROVE  GateOf(u, pc[q])'
    <3>0. PICK x : x = pc'[q]
      OBVIOUS
    <3>1. GateOf(u, x)
      BY <2>2, <3>0, <1>1, <1>2 DEF Protocol, GatesOK, MayReach
    <3>2. GateOf(u, x)'
      BY <3>1, <1>3, GateStays
    <3> QED BY <3>0, <3>2 DEF GateOf
  <2> QED BY <2>1, <2>2 DEF GatesOK
<1>8. OutcomesOK'
  BY <1>1 DEF Protocol, OutcomesOK, WellIn, RefusedIn, CompleteIn, Came, NotUnlinked, Missed
<1> QED BY <1>3, <1>4, <1>6, <1>7, <1>8 DEF Protocol

\* How a session may end for a rank.
MayEnd(r, how) == LET s == session[r] IN
    /\ how = "ok" =>
         IF modes[s] = "r" THEN WellIn(s, "data_close") ELSE WellIn(s, "metadata_commit")
    /\ how = "raised" =>
         \/ \E m \in {"SlabIO.open", "data_close", "materialized", "metadata_commit"} : RefusedIn(s, m)
         \/ NotUnlinked(s, r)
         \/ /\ modes[s] = "r" /\ ~RefusedIn(s, "SlabIO.open") /\ ~Came(s, "H5Fclose", r)
            /\ CompleteIn(s, "H5Fopen")

\* A rank that may end and does.
LEMMA EndKeepsProtocol ==
    ASSUME TypeOK, Protocol, NEW r \in Rank, NEW how \in {"ok", "raised"},
           pc[r] # "ended", MayEnd(r, how),
           End(r, how), UNCHANGED <<session, modes>>
    PROVE  Local(r) /\ Protocol'
<1> DEFINE s == session[r]
<1>1. s \in Session /\ outcome[s][r] = "none" /\ session' = session /\ modes' = modes
  BY DEF Protocol, SessionsOK
<1>2. /\ pc'[r] = "ended" /\ \A q \in Rank : q # r => pc'[q] = pc[q]
      /\ outcome'[s][r] = how
      /\ \A u \in Session, q \in Rank : u # s \/ q # r => outcome'[u][q] = outcome[u][q]
      /\ came' = came
  BY <1>1, EndEffect
<1>3. Local(r)
  BY <1>1, <1>2 DEF Local
<1>4. SessionsOK' /\ Ahead'
  BY <1>3, LocalKeepsOrder DEF Protocol
<1>6. LabelsOK'
  BY <1>1, <1>2 DEF Protocol, LabelsOK, LabelsFor, Came, Meeting, RootPlace, Publishing
<1>7. GatesOK'
  <2>1. ASSUME NEW u \in Session, NEW q \in Rank, NEW n \in Meeting, Came(u, n, q)'
        PROVE  GateOf(u, n)'
    <3>1. GateOf(u, n)
      BY <2>1, <1>2 DEF Protocol, GatesOK, Came
    <3> QED BY <3>1, <1>3, GateStays
  <2>2. ASSUME NEW u \in Session, NEW q \in Rank, session'[q] = u, pc'[q] # "ended"
        PROVE  GateOf(u, pc[q])'
    <3>0. PICK x : x = pc'[q]
      OBVIOUS
    <3>1. GateOf(u, x)
      BY <2>2, <3>0, <1>1, <1>2 DEF Protocol, GatesOK
    <3>2. GateOf(u, x)'
      BY <3>1, <1>3, GateStays
    <3> QED BY <3>0, <3>2 DEF GateOf
  <2> QED BY <2>1, <2>2 DEF GatesOK
<1>8. OutcomesOK'
  <2> SUFFICES ASSUME NEW u \in Session, NEW q \in Rank
               PROVE  /\ outcome'[u][q] = "ok" =>
                           IF modes[u] = "r" THEN WellIn(u, "data_close") ELSE WellIn(u, "metadata_commit")
                      /\ outcome'[u][q] = "raised" =>
                           \/ \E n \in {"SlabIO.open", "data_close", "materialized", "metadata_commit"} :
                                  RefusedIn(u, n)
                           \/ NotUnlinked(u, q)
                           \/ /\ modes[u] = "r" /\ ~RefusedIn(u, "SlabIO.open") /\ ~Came(u, "H5Fclose", q)
                              /\ CompleteIn(u, "H5Fopen")
    BY <1>1, <1>2 DEF OutcomesOK, WellIn, RefusedIn, CompleteIn, Came, NotUnlinked, Missed
  <2>1. CASE u = s /\ q = r
    BY <2>1, <1>2 DEF MayEnd
  <2>2. CASE u # s \/ q # r
    BY <2>2, <1>2 DEF Protocol, OutcomesOK, Missed
  <2> QED BY <2>1, <2>2
<1> QED BY <1>3, <1>4, <1>6, <1>7, <1>8 DEF Protocol

-----------------------------------------------------------------------------
(* What lies behind a rank that holds the path or publishes *)

\* A meeting that is over was come to through its gate.
LEMMA MeetingGate ==
    ASSUME TypeOK, Protocol, NEW s \in Session, NEW m \in Meeting,
           CompleteIn(s, m) \/ WellIn(s, m) \/ RefusedIn(s, m) \/ \E q \in Rank : Came(s, m, q)
    PROVE  GateOf(s, m)
<1>1. \E q \in Rank : Came(s, m, q)
  BY Constants DEF CompleteIn, WellIn, RefusedIn, Came
<1> QED BY <1>1 DEF Protocol, GatesOK

\* A rank in a session has come to what everybody has come to, and is past it.
LEMMA PastIt ==
    ASSUME TypeOK, Protocol, NEW r \in Rank, pc[r] # "ended", NEW m \in Meeting,
           CompleteIn(session[r], m) \/ WellIn(session[r], m) \/ RefusedIn(session[r], m)
    PROVE  Nr(m) <= Nr(pc[r])
<1>1. Came(session[r], m, r)
  BY DEF CompleteIn, WellIn, RefusedIn, Came
<1> QED BY <1>1 DEF Protocol, LabelsOK, LabelsFor

\* Who holds the path, or has held it, came through the collective open of all ranks.
LEMMA OpenBehind ==
    ASSUME TypeOK, Protocol, NEW s \in Session, NEW x \in Inside \cup {"data_close"}, GateOf(s, x)
    PROVE  /\ CompleteIn(s, "H5Fopen") /\ WellIn(s, "SlabIO.open")
           /\ modes[s] = "w" => CompleteIn(s, "replace_inode")
           /\ x \in {"closing", "H5Fclose", "data_close"} \/ modes[s] # "r"
<1>1. \A m \in Meeting : CompleteIn(s, m) \/ WellIn(s, m) \/ RefusedIn(s, m) => GateOf(s, m)
  BY MeetingGate
<1>2. GateOf(s, "H5Fopen") =>
        WellIn(s, "SlabIO.open") /\ (modes[s] = "w" => CompleteIn(s, "replace_inode"))
  BY DEF GateOf
<1>3. CompleteIn(s, "H5Dcreate") => modes[s] # "r" /\ CompleteIn(s, "H5Fopen")
  BY <1>1 DEF GateOf, Meeting
<1>4. CompleteIn(s, "zeros") => CompleteIn(s, "H5Dcreate")
  BY <1>1 DEF GateOf, Meeting
<1>5. CompleteIn(s, "initialize_receipt") \/ WellIn(s, "initialize_receipt") => CompleteIn(s, "zeros")
  BY <1>1 DEF GateOf, Meeting
<1>6. CompleteIn(s, "H5Fclose") => CompleteIn(s, "H5Fopen")
  <2>1. CompleteIn(s, "H5Fclose") =>
          \/ CompleteIn(s, "H5Fopen")
          \/ modes[s] # "r" /\ CompleteIn(s, "initialize_receipt")
    BY <1>1 DEF GateOf, Meeting
  <2> QED BY <2>1, <1>3, <1>4, <1>5
<1>7. CompleteIn(s, "H5Fopen")
      /\ (x \in {"closing", "H5Fclose", "data_close"} \/ modes[s] # "r")
  BY <1>3, <1>4, <1>5, <1>6 DEF GateOf, Inside
<1>8. GateOf(s, "H5Fopen")
  BY <1>7, <1>1 DEF Meeting
<1> QED BY <1>2, <1>7, <1>8

\* While one rank holds the path, all are in its session.
LEMMA Together ==
    ASSUME TypeOK, Protocol, OpensAlike, NEW r \in Rank, pc[r] \in Inside, NEW q \in Rank
    PROVE  /\ session[q] = session[r]
           /\ pc[q] \in {"H5Fopen", "data_close"} \cup Inside
<1> DEFINE s == session[r]
<1>1. pc[r] # "ended" /\ s \in Session /\ GateOf(s, pc[r])
  BY DEF Protocol, SessionsOK, GatesOK, Inside
<1>2. /\ CompleteIn(s, "H5Fopen") /\ WellIn(s, "SlabIO.open")
      /\ modes[s] = "w" => CompleteIn(s, "replace_inode")
      /\ pc[r] \in {"closing", "H5Fclose", "data_close"} \/ modes[s] # "r"
  BY <1>1, OpenBehind
<1>3. Nr(pc[r]) <= 11
  BY DEF Nr, Inside
<1>4. \A m \in Meeting : Nr(m) >= 12 => ~CompleteIn(s, m) /\ ~WellIn(s, m) /\ ~RefusedIn(s, m)
  BY <1>1, <1>3, PastIt, NrIsNat
<1>5. /\ "data_close" \in Meeting /\ "materialized" \in Meeting /\ "metadata_commit" \in Meeting
      /\ Nr("data_close") >= 12 /\ Nr("materialized") >= 12 /\ Nr("metadata_commit") >= 12
  BY DEF Nr, Meeting
<1>6. ~Missed(s, q)
  <2> SUFFICES ASSUME modes[s] = "r"
               PROVE  ~Missed(s, q)
    BY DEF Missed
  <2>1. OpenedIn(s, r)
    BY <1>1, <1>2 DEF OpenedIn, AtIn, Protocol, LabelsOK, LabelsFor, Meeting, Inside
  <2> QED BY <2>1, <1>1 DEF OpensAlike
<1>7. outcome[s][q] # "ok"
  BY <1>1, <1>4, <1>5 DEF Protocol, OutcomesOK
<1>8. outcome[s][q] # "raised"
  <2>1. ~RefusedIn(s, "SlabIO.open")
    BY <1>2 DEF WellIn, RefusedIn
  <2>2. ~NotUnlinked(s, q)
    BY <1>2, Constants DEF NotUnlinked, CompleteIn
  <2> QED BY <2>1, <2>2, <1>1, <1>4, <1>5, <1>6 DEF Protocol, OutcomesOK
<1>9. outcome[s][q] = "none"
  BY <1>1, <1>7, <1>8 DEF TypeOK, RanksOK
<1>10. ~(s < session[q]) /\ ~(s = session[q] /\ pc[q] = "ended")
  BY <1>1, <1>9 DEF Protocol, Ahead
<1>11. Came(s, "H5Fopen", q)
  BY <1>2 DEF CompleteIn
<1>12. ~(s > session[q])
  BY <1>1, <1>11 DEF Protocol, SessionsOK, Meeting
<1>13. session[q] = s /\ pc[q] # "ended"
  BY <1>1, <1>10, <1>12, MeetingsAssumption DEF TypeOK, RanksOK, Session
<1>14. Nr(pc[q]) >= 4
  <2>1. Nr("H5Fopen") <= Nr(pc[q])
    BY <1>11, <1>13 DEF Protocol, LabelsOK, LabelsFor, Meeting
  <2>2. Nr("H5Fopen") = 4
    BY DEF Nr
  <2> QED BY <2>1, <2>2, NrIsNat
<1>15. GateOf(s, pc[q])
  BY <1>1, <1>13 DEF Protocol, GatesOK
<1>16. pc[q] \notin {"materializing", "materialized", "reopening", "metadata_commit"} \cup Publishing
  BY <1>15, <1>4, <1>5 DEF GateOf
<1>17. pc[q] \in {"ended"} \cup Place \cup Meeting
  BY DEF TypeOK, RanksOK
<1>18. pc[q] \notin {"preflight", "checking", "SlabIO.open", "replacing", "replace_inode"}
  BY <1>14 DEF Nr
<1> QED BY <1>13, <1>16, <1>17, <1>18 DEF Inside, Place, Meeting, Publishing

\* When rank zero publishes, every rank has initialized the receipt and written its part.
LEMMA PublishMeans ==
    ASSUME TypeOK, Protocol, PartsOK, session[0] \in Session, WellIn(session[0], "materialized")
    PROVE  /\ CompleteIn(session[0], "H5Dcreate")
           /\ WellIn(session[0], "initialize_receipt")
           /\ (\A q \in Rank : block[q] = session[0]) \/ unclosed
<1> DEFINE s == session[0]
<1>1. \A m \in Meeting : CompleteIn(s, m) \/ WellIn(s, m) \/ RefusedIn(s, m) => GateOf(s, m)
  BY MeetingGate
<1>2. modes[s] # "r" /\ WellIn(s, "data_close")
  BY <1>1 DEF GateOf, Meeting
<1>3. CompleteIn(s, "H5Fclose")
  BY <1>1, <1>2 DEF GateOf, Meeting
<1>4. /\ CompleteIn(s, "initialize_receipt")
      /\ RefusedIn(s, "initialize_receipt") \/ CompleteIn(s, "H5Dwrite")
  BY <1>1, <1>2, <1>3 DEF GateOf, Meeting
<1>5. CompleteIn(s, "zeros")
  BY <1>1, <1>4 DEF GateOf, Meeting
<1>6. CompleteIn(s, "H5Dcreate")
  BY <1>1, <1>5 DEF GateOf, Meeting
<1>7. \A q \in Rank : came[s]["initialize_receipt"][q] # "failed"
  BY <1>2 DEF PartsOK, PartIn, WellIn
<1>8. WellIn(s, "initialize_receipt") /\ CompleteIn(s, "H5Dwrite")
  BY <1>4, <1>7 DEF WellIn, CompleteIn, RefusedIn, Came, TypeOK, RanksOK, Meeting
<1>9. (\A q \in Rank : block[q] = s) \/ unclosed
  BY <1>2, <1>8 DEF PartsOK, PartIn, WellIn, CompleteIn
<1> QED BY <1>6, <1>8, <1>9

\* All ranks that are in the collective open are in one session.
LEMMA OneOpen ==
    ASSUME TypeOK, Protocol, NEW r \in Rank, pc[r] # "ended",
           CompleteIn(session[r], "SlabIO.open"), NEW q \in Rank, pc[q] = "H5Fopen"
    PROVE  session[q] = session[r]
<1>1. session[r] \in Session /\ session[q] \in Session
  BY DEF Protocol, SessionsOK
<1>2. WellIn(session[q], "SlabIO.open")
  BY <1>1 DEF Protocol, GatesOK, GateOf
<1>3. Came(session[r], "SlabIO.open", q) /\ Came(session[q], "SlabIO.open", r)
  BY <1>2 DEF CompleteIn, WellIn, Came
<1>4. ~(session[r] > session[q]) /\ ~(session[q] > session[r])
  BY <1>1, <1>3 DEF Protocol, SessionsOK, Meeting
<1> QED BY <1>1, <1>4, MeetingsAssumption DEF Session

\* A reader that has the file, or found none, was in the collective open with all.
LEMMA OpenWasMet ==
    ASSUME TypeOK, Protocol, NEW s \in Session, modes[s] = "r", NEW r \in Rank,
           OpenedIn(s, r) \/ Missed(s, r)
    PROVE  CompleteIn(s, "H5Fopen")
<1>1. \A m \in Meeting : CompleteIn(s, m) \/ WellIn(s, m) \/ RefusedIn(s, m) => GateOf(s, m)
  BY MeetingGate
<1>2. CASE OpenedIn(s, r)
  <2>1. GateOf(s, "H5Fclose") \/ GateOf(s, "closing")
    BY <1>2 DEF OpenedIn, AtIn, Protocol, GatesOK, Meeting
  <2> QED BY <2>1 DEF GateOf
<1>3. CASE Missed(s, r)
  <2>1. ~RefusedIn(s, "data_close") /\ ~RefusedIn(s, "materialized") /\ ~RefusedIn(s, "metadata_commit")
    <3>1. RefusedIn(s, "data_close") => CompleteIn(s, "H5Fclose")
      BY <1>1 DEF GateOf, Meeting
    <3>2. RefusedIn(s, "materialized") => modes[s] # "r"
      BY <1>1 DEF GateOf, Meeting
    <3>3. RefusedIn(s, "metadata_commit") => WellIn(s, "materialized")
      BY <1>1 DEF GateOf, Meeting
    <3>4. WellIn(s, "materialized") => modes[s] # "r"
      BY <1>1 DEF GateOf, Meeting
    <3> QED BY <3>1, <3>2, <3>3, <3>4, <1>3 DEF Missed, CompleteIn
  <2>2. outcome[s][r] = "raised" /\ ~RefusedIn(s, "SlabIO.open") /\ ~NotUnlinked(s, r)
    BY <1>3 DEF Missed, NotUnlinked
  <2> QED BY <2>1, <2>2 DEF Protocol, OutcomesOK
<1> QED BY <1>2, <1>3

-----------------------------------------------------------------------------
(* What a step that does not concern them does to the other parts *)

\* The readers still find the same.
LEMMA OpensKept ==
    ASSUME TypeOK, Protocol, OpensAlike, NEW r \in Rank, Local(r),
           \/ exists' = exists
           \/ modes[session[r]] # "r" /\ CompleteIn(session[r], "SlabIO.open"),
           pc'[r] = "H5Fopen" => Nr(pc[r]) < 4,
           modes[session[r]] = "r" =>
             ~Missed(session[r], r)' /\ (OpenedIn(session[r], r)' => OpenedIn(session[r], r))
    PROVE  OpensAlike'
<1>1. session' = session /\ modes' = modes /\ session[r] \in Session
  BY DEF Local, Protocol, SessionsOK
<1>2. ASSUME NEW s \in Session, modes[s] = "r", NEW q \in Rank
      PROVE  (Missed(s, q)' => Missed(s, q)) /\ (OpenedIn(s, q)' => OpenedIn(s, q))
  <2>1. CASE s = session[r] /\ q = r
    BY <2>1, <1>1, <1>2 DEF Missed, OpenedIn, AtIn, Came, RefusedIn, CompleteIn
  <2>2. CASE s # session[r] \/ q # r
    <3>1. outcome'[s][q] = outcome[s][q]
      BY <2>2 DEF Local
    <3>2. RefusedIn(s, "SlabIO.open") => RefusedIn(s, "SlabIO.open")'
      BY StaysSaid DEF Meeting
    <3>3. Came(s, "H5Fclose", q)' <=> Came(s, "H5Fclose", q)
      BY <2>2 DEF Local, Came, Meeting
    <3>4. session[q] = s => q # r /\ pc'[q] = pc[q]
      BY <2>2 DEF Local
    <3> QED BY <3>1, <3>2, <3>3, <3>4, <1>1 DEF Missed, OpenedIn, AtIn
  <2> QED BY <2>1, <2>2
<1>3. ASSUME NEW s \in Session, modes[s] = "r", NEW q \in Rank, NEW p \in Rank,
             session[q] = s, pc'[q] = "H5Fopen"
      PROVE  (OpenedIn(s, p)' => exists') /\ (Missed(s, p)' => ~exists')
  <2>1. CASE q = r
    <3>1. Nr(pc[r]) < 4 /\ pc[r] # "ended"
      BY <2>1, <1>3 DEF Local
    <3>2. ~CompleteIn(s, "H5Fopen")
      <4>1. Nr("H5Fopen") = 4
        BY DEF Nr
      <4> QED BY <4>1, <3>1, <2>1, <1>3, PastIt, NrIsNat DEF Meeting
    <3>3. ~OpenedIn(s, p) /\ ~Missed(s, p)
      BY <3>2, <1>3, OpenWasMet
    <3> QED BY <3>3, <1>2, <1>3
  <2>2. CASE q # r
    <3>1. pc[q] = "H5Fopen"
      BY <2>2, <1>3 DEF Local
    <3>2. exists' = exists
      BY <3>1, <1>3, OneOpen DEF Local
    <3>3. (OpenedIn(s, p) => exists) /\ (Missed(s, p) => ~exists)
      BY <3>1, <1>3 DEF OpensAlike, AtIn
    <3> QED BY <3>2, <3>3, <1>2, <1>3
  <2> QED BY <2>1, <2>2
<1>4. ASSUME NEW s \in Session, modes[s] = "r", NEW q \in Rank, NEW p \in Rank, OpenedIn(s, p)'
      PROVE  ~Missed(s, q)'
  BY <1>4, <1>2 DEF OpensAlike
<1> QED BY <1>1, <1>3, <1>4 DEF OpensAlike, AtIn

\* The file is as it was.
LEMMA FileKept ==
    ASSUME TypeOK, Protocol, FileOK, NEW r \in Rank, Local(r), UNCHANGED disk,
           pc'[r] # "H5Dcreate", pc'[r] = "checking" => exists,
           Came(session[r], "H5Dcreate", r)' => Came(session[r], "H5Dcreate", r)
    PROVE  FileOK'
<1>1. session' = session /\ exists' = exists /\ receipt' = receipt /\ block' = block /\ attr' = attr
      /\ unclosed' = unclosed
  BY DEF Local, disk
<1>2. \A s \in Session, q \in Rank : Came(s, "H5Dcreate", q)' => Came(s, "H5Dcreate", q)
  BY DEF Local, Came, Meeting
<1>3. pc'[0] = "checking" => exists
  BY Constants DEF Local, FileOK
<1> QED BY <1>1, <1>2, <1>3 DEF FileOK

\* What the other ranks have written is what they had written.
LEMMA PartsKept ==
    ASSUME TypeOK, Protocol, PartsOK, NEW r \in Rank, Local(r),
           \A q \in Rank : q # r => block'[q] = block[q] /\ error'[q] = error[q],
           PartFor(r)', PartIn(session[r], r)',
           block'[r] = block[r] \/ session[r] = session[0], unclosed => unclosed'
    PROVE  PartsOK'
<1>1. session' = session /\ session[r] \in Session /\ 0 \in Rank
  BY Constants DEF Local, Protocol, SessionsOK
<1>2. ASSUME NEW q \in Rank
      PROVE  PartFor(q)'
  <2>1. CASE q = r
    BY <2>1
  <2>2. CASE q # r
    <3>1. /\ pc'[q] = pc[q] /\ block'[q] = block[q] /\ error'[q] = error[q] /\ PartFor(q)
          /\ pc[q] # "ended" => session[q] \in Session
      BY <2>2 DEF Local, PartsOK, Protocol, SessionsOK
    <3>2. \A s \in Session, m \in Meeting : came'[s][m][q] = came[s][m][q]
      BY <2>2 DEF Local
    <3> QED BY <3>1, <3>2, <1>1 DEF PartFor, Came, Meeting
  <2> QED BY <2>1, <2>2
<1>3. ASSUME NEW q \in Rank, NEW s \in Session
      PROVE  PartIn(s, q)'
  <2>1. CASE q = r /\ s = session[r]
    BY <2>1, <1>1 DEF PartIn, Came
  <2>2. CASE q # r \/ s # session[r]
    <3>1. PartIn(s, q) /\ \A m \in Meeting : came'[s][m][q] = came[s][m][q]
      BY <2>2 DEF Local, PartsOK
    <3>2. session[0] = s => block'[q] = block[q]
      BY <2>2
    <3> QED BY <3>1, <3>2, <1>1 DEF PartIn, Came, Meeting
  <2> QED BY <2>1, <2>2
<1> QED BY <1>2, <1>3 DEF PartsOK

\* The receipt and what it vouches for are as they were.
LEMMA ReceiptKept ==
    ASSUME TypeOK, Protocol, ReceiptOK, NEW r \in Rank, Local(r), UNCHANGED disk,
           r = 0 => /\ pc'[0] \notin {"committing", "releasing", "metadata_commit"}
                    /\ pc'[0] # "initialize_receipt" \/ came'[session[0]]["initialize_receipt"][0] # "well"
                    /\ \A m \in Meeting : m # pc'[0] =>
                         came'[session[0]][m][0] = came[session[0]][m][0]
                    /\ pc'[0] \notin Zeroed \/ pc[0] \in Zeroed \/ Nr(pc[0]) < 7
    PROVE  ReceiptOK'
<1>1. /\ session' = session /\ exists' = exists /\ receipt' = receipt /\ block' = block /\ attr' = attr
      /\ unclosed' = unclosed
      /\ pc[0] # "ended" => session[0] \in Session
  BY Constants DEF Local, disk, Protocol, SessionsOK
<1>2. CommittedIsWhole' /\ \A s \in Session : CommittedBy(s) <=> CommittedBy(s)'
  BY <1>1 DEF CommittedIsWhole, Whole, CommittedBy, ReceiptOK
<1>3. CASE r # 0
  <2>1. pc'[0] = pc[0] /\ \A s \in Session, m \in Meeting : came'[s][m][0] = came[s][m][0]
    BY <1>3, Constants DEF Local
  <2>2. pc[0] \in Zeroed \cup {"committing", "releasing"} => session[0] \in Session
    BY <1>1 DEF Zeroed
  <2> QED BY <2>1, <2>2, <1>1, <1>2 DEF ReceiptOK, Meeting
<1>4. CASE r = 0
  <2>0. session[0] \in Session /\ pc[0] # "ended"
    BY <1>4 DEF Local, Protocol, SessionsOK
  <2>1. pc'[0] \notin {"committing", "releasing", "metadata_commit"}
    BY <1>4
  <2>2. \A s \in Session : session[0] = s =>
          came'[s]["metadata_commit"][0] = came[s]["metadata_commit"][0]
    BY <1>4, <2>1 DEF Meeting
  <2>3. ASSUME pc'[0] \in Zeroed, came'[session[0]]["initialize_receipt"][0] = "well"
        PROVE  receipt = "0" \/ unclosed
    <3>1. pc'[0] # "initialize_receipt"
      BY <1>4, <2>3
    <3>2. came[session[0]]["initialize_receipt"][0] = "well"
      BY <3>1, <1>4, <2>3 DEF Meeting
    <3>3. Nr("initialize_receipt") <= Nr(pc[0])
      BY <3>2, <2>0, Constants DEF Protocol, LabelsOK, LabelsFor, Came, Meeting
    <3>4. Nr("initialize_receipt") = 7
      BY DEF Nr
    <3>5. pc[0] \in Zeroed
      BY <3>3, <3>4, <2>3, <1>4, NrIsNat
    <3> QED BY <3>2, <3>5 DEF ReceiptOK
  <2> QED BY <2>0, <2>1, <2>2, <2>3, <1>1, <1>2 DEF ReceiptOK
<1> QED BY <1>3, <1>4

\* Who held the path holds it.
LEMMA HandlesKept ==
    ASSUME TypeOK, HandlesOK, NEW r \in Rank, Local(r), native' = native, serial' = serial,
           pc[r] \in Inside => pc'[r] \in Inside,
           r = 0 => (pc[0] \in Serial <=> pc'[0] \in Serial)
    PROVE  HandlesOK'
<1>1. pc[0] \in Serial <=> pc'[0] \in Serial
  BY Constants DEF Local
<1>2. \A q \in native : pc'[q] \in Inside
  BY DEF Local, HandlesOK, TypeOK
<1> QED BY <1>1, <1>2 DEF HandlesOK

-----------------------------------------------------------------------------
(* Steps that leave the file alone *)

\* A rank has not come to what is ahead of it.
LEMMA NotYet ==
    ASSUME TypeOK, Protocol, NEW r \in Rank, pc[r] # "ended",
           NEW m \in Meeting, Nr(pc[r]) < Nr(m)
    PROVE  came[session[r]][m][r] = "no"
  BY NrIsNat DEF Protocol, LabelsOK, LabelsFor, Came

\* To come to a meeting, with no more than an error to report.
LEMMA QuietCome ==
    ASSUME IInv, NEW r \in Rank, NEW m \in Meeting \ {"H5Dcreate", "H5Dwrite"}, NEW f \in BOOLEAN,
           pc[r] # "ended", MayReach(r, m), Nr(pc[r]) < Nr(m), Come(r, m, f),
           UNCHANGED <<disk, session, modes, outcome>>,
           \A q \in Rank : q # r => error'[q] = error[q],
           m = "initialize_receipt" => (f => error'[r]) /\ (f \/ r # 0),
           m = "H5Fclose" => pc[r] = "closing" /\ error'[r] = error[r],
           m = "data_close" => pc[r] = "H5Fclose" /\ (error[r] => f),
           m = "metadata_commit" /\ r = 0 => f \/ pc[0] = "releasing"
    PROVE  Local(r) /\ pc'[r] = m /\ Protocol' /\ OpensAlike' /\ FileOK' /\ PartsOK' /\ ReceiptOK'
<1> DEFINE s == session[r]
<1>0. TypeOK /\ Protocol /\ OpensAlike /\ FileOK /\ PartsOK /\ ReceiptOK /\ HandlesOK /\ LabelsFor(r)
  BY DEF IInv, Protocol, LabelsOK
<1>1. /\ s \in Session /\ outcome[s][r] = "none" /\ outcome' = outcome
      /\ session' = session /\ modes' = modes
      /\ exists' = exists /\ receipt' = receipt /\ block' = block /\ attr' = attr
      /\ unclosed' = unclosed
  BY <1>0 DEF Protocol, SessionsOK, disk
<1>2. Local(r) /\ Protocol'
  BY <1>0, ComeKeepsProtocol
<1>3. /\ pc'[r] = m
      /\ came'[s][m][r] = IF f THEN "failed" ELSE "well"
      /\ \A n \in Meeting : n # m => came'[s][n][r] = came[s][n][r]
  BY <1>0, <1>1, ComeEffect DEF Come
<1>4. \A n \in Meeting : Nr(pc[r]) < Nr(n) => came[s][n][r] = "no"
  BY <1>0, NotYet
<1>5. OpensAlike'
  <2>1. m = "H5Fopen" => Nr(pc[r]) < 4
    BY DEF Nr
  <2>2. ~Missed(s, r)'
    BY <1>1 DEF Missed
  <2>3. OpenedIn(s, r)' => OpenedIn(s, r)
    BY <1>1, <1>3 DEF OpenedIn, AtIn, Came, Meeting
  <2> QED BY <1>0, <1>1, <1>2, <1>3, <2>1, <2>2, <2>3, OpensKept
<1>6. FileOK'
  <2>1. Came(s, "H5Dcreate", r)' => Came(s, "H5Dcreate", r)
    BY <1>1, <1>3 DEF Came, Meeting
  <2>2. m # "checking"
    BY DEF Meeting
  <2> QED BY <1>0, <1>2, <1>3, <2>1, <2>2, FileKept
<1>7. PartsOK'
  <2>1. PartFor(r) /\ PartIn(s, r)
    BY <1>0, <1>1 DEF PartsOK
  <2>2. PartFor(r)'
    <3>1. CASE m = "H5Fclose"
      BY <3>1, <2>1, <1>1, <1>3 DEF PartFor, Came, Meeting
    <3>2. CASE m = "initialize_receipt"
      BY <3>2, <1>1, <1>3 DEF PartFor
    <3>3. CASE m \notin {"H5Fclose", "initialize_receipt"}
      BY <3>3, <1>1, <1>3 DEF PartFor, Meeting
    <3> QED BY <3>1, <3>2, <3>3
  <2>3. PartIn(s, r)'
    <3>1. CASE m = "data_close"
      BY <3>1, <2>1, <1>1, <1>3 DEF PartFor, PartIn, Came, Meeting
    <3>2. CASE m = "initialize_receipt"
      <4>1. came'[s]["data_close"][r] = "no"
        <5>1. Nr("data_close") = 12 /\ Nr("initialize_receipt") = 7
          BY DEF Nr
        <5> QED BY <3>2, <5>1, <1>3, <1>4, NrIsNat DEF Meeting
      <4> QED BY <4>1, <1>1 DEF PartIn
    <3>3. CASE m \notin {"data_close", "initialize_receipt"}
      BY <3>3, <2>1, <1>1, <1>3 DEF PartIn, Came, Meeting
    <3> QED BY <3>1, <3>2, <3>3
  <2> QED BY <1>0, <1>1, <1>2, <2>2, <2>3, PartsKept
<1>8. ReceiptOK'
  <2>1. CASE r = 0 /\ m = "metadata_commit"
    <3>1. m \notin Zeroed /\ m \notin {"committing", "releasing"}
      BY <2>1 DEF Zeroed
    <3>2. CommittedIsWhole' /\ \A u \in Session : CommittedBy(u)' <=> CommittedBy(u)
      BY <1>0, <1>1 DEF CommittedIsWhole, CommittedBy, Whole, ReceiptOK
    <3>3. ASSUME came'[s]["metadata_commit"][0] = "well"
          PROVE  CommittedBy(s)
      BY <2>1, <3>3, <1>0, <1>3 DEF ReceiptOK
    <3> QED BY <3>1, <3>2, <3>3, <2>1, <1>1, <1>3 DEF ReceiptOK
  <2>2. CASE r = 0 /\ m # "metadata_commit"
    <3>1. m \notin {"committing", "releasing", "metadata_commit"} /\ m # "materializing"
      BY <2>2 DEF Meeting
    <3>2. m \in Zeroed => pc[0] \in Zeroed \/ Nr(pc[0]) < 7
      BY <2>2, <3>1, <1>0 DEF Zeroed, Meeting, Nr, TypeOK, RanksOK, Place
    <3> QED BY <2>2, <3>1, <3>2, <1>0, <1>1, <1>2, <1>3, ReceiptKept
  <2>3. CASE r # 0
    BY <2>3, <1>0, <1>1, <1>2, ReceiptKept
  <2> QED BY <2>1, <2>2, <2>3
<1> QED BY <1>2, <1>3, <1>5, <1>6, <1>7, <1>8

\* To go to another place.
LEMMA QuietMove ==
    ASSUME IInv, NEW r \in Rank, NEW label \in Place \ {"committing", "releasing"},
           pc[r] # "ended", MayReach(r, label), Move(r, label),
           UNCHANGED <<disk, session, modes, error>>,
           pc[r] \in Zeroed \/ Nr(pc[r]) < 7 \/ label \notin Zeroed,
           label = "checking" => exists,
           label = "closing" =>
             modes[session[r]] # "r" /\ pc[r] = "initialize_receipt"
    PROVE  Local(r) /\ pc'[r] = label /\ Protocol' /\ OpensAlike' /\ FileOK' /\ PartsOK' /\ ReceiptOK'
<1> DEFINE s == session[r]
<1>0. TypeOK /\ Protocol /\ OpensAlike /\ FileOK /\ PartsOK /\ ReceiptOK /\ HandlesOK /\ LabelsFor(r)
  BY DEF IInv, Protocol, LabelsOK
<1>1. /\ s \in Session /\ outcome[s][r] = "none" /\ outcome' = outcome
      /\ session' = session /\ modes' = modes /\ came' = came /\ error' = error
      /\ exists' = exists /\ receipt' = receipt /\ block' = block /\ attr' = attr
      /\ unclosed' = unclosed
  BY <1>0 DEF Protocol, SessionsOK, disk, Move
<1>2. Local(r) /\ Protocol'
  BY <1>0, <1>1, MoveKeepsProtocol DEF Move
<1>3. pc'[r] = label
  BY <1>0, MoveEffect DEF Move
<1>4. \A n \in Meeting : Nr(pc[r]) < Nr(n) => came[s][n][r] = "no"
  BY <1>0, NotYet
<1>5. OpensAlike'
  <2>1. label # "H5Fopen"
    BY DEF Place
  <2>2. ~Missed(s, r)'
    BY <1>1 DEF Missed
  <2>3. modes[s] = "r" => (OpenedIn(s, r)' => OpenedIn(s, r))
    BY <1>1, <1>3 DEF OpenedIn, AtIn, Came
  <2> QED BY <1>0, <1>1, <1>2, <1>3, <2>1, <2>2, <2>3, OpensKept
<1>6. FileOK'
  <2>1. label # "H5Dcreate"
    BY DEF Place
  <2>2. Came(s, "H5Dcreate", r)' => Came(s, "H5Dcreate", r)
    BY <1>1 DEF Came
  <2> QED BY <1>0, <1>2, <1>3, <2>1, <2>2, FileKept
<1>7. PartsOK'
  <2>1. PartFor(r) /\ PartIn(s, r)
    BY <1>0, <1>1 DEF PartsOK
  <2>2. PartFor(r)'
    <3>1. CASE label = "closing"
      <4>1. came[s]["H5Dwrite"][r] = "no"
        <5>1. Nr("H5Dwrite") = 9 /\ Nr("initialize_receipt") = 7
          BY DEF Nr
        <5> QED BY <3>1, <5>1, <1>4 DEF Meeting
      <4> QED BY <4>1, <3>1, <2>1, <1>1, <1>3 DEF PartFor, Came
    <3>2. CASE label # "closing"
      BY <3>2, <1>3 DEF PartFor, Place
    <3> QED BY <3>1, <3>2
  <2>3. PartIn(s, r)'
    BY <2>1, <1>1 DEF PartIn, Came
  <2> QED BY <1>0, <1>1, <1>2, <2>2, <2>3, PartsKept
<1>8. ReceiptOK'
  <2>1. label \notin {"metadata_commit", "initialize_receipt"}
    BY DEF Place
  <2> QED BY <2>1, <1>0, <1>1, <1>2, <1>3, ReceiptKept
<1> QED BY <1>2, <1>3, <1>5, <1>6, <1>7, <1>8

\* To end a session, other than by finding nothing to read.
LEMMA QuietEnd ==
    ASSUME IInv, NEW r \in Rank, NEW how \in {"ok", "raised"},
           pc[r] # "ended", MayEnd(r, how), End(r, how),
           UNCHANGED <<disk, session, modes, error>>,
           how = "raised" /\ modes[session[r]] = "r" =>
             RefusedIn(session[r], "SlabIO.open") \/ Came(session[r], "H5Fclose", r)
    PROVE  Local(r) /\ pc'[r] = "ended" /\ Protocol' /\ OpensAlike' /\ FileOK' /\ PartsOK' /\ ReceiptOK'
<1> DEFINE s == session[r]
<1>0. TypeOK /\ Protocol /\ OpensAlike /\ FileOK /\ PartsOK /\ ReceiptOK /\ HandlesOK
  BY DEF IInv
<1>1. /\ s \in Session
      /\ session' = session /\ modes' = modes /\ error' = error
      /\ exists' = exists /\ receipt' = receipt /\ block' = block /\ attr' = attr
      /\ unclosed' = unclosed
  BY <1>0 DEF Protocol, SessionsOK, disk
<1>2. Local(r) /\ Protocol'
  BY <1>0, EndKeepsProtocol
<1>3. pc'[r] = "ended" /\ came' = came /\ outcome'[s][r] = how
  BY <1>0, <1>1, EndEffect
<1>5. OpensAlike'
  <2>2. modes[s] = "r" => ~Missed(s, r)'
    BY <1>1, <1>3 DEF Missed, RefusedIn, CompleteIn, Came
  <2>3. OpenedIn(s, r)' => OpenedIn(s, r)
    BY <1>1, <1>3 DEF OpenedIn, AtIn, Came
  <2> QED BY <1>0, <1>1, <1>2, <1>3, <2>2, <2>3, OpensKept
<1>6. FileOK'
  <2>2. Came(s, "H5Dcreate", r)' => Came(s, "H5Dcreate", r)
    BY <1>1, <1>3 DEF Came
  <2> QED BY <1>0, <1>2, <1>3, <2>2, FileKept
<1>7. PartsOK'
  <2>1. PartIn(s, r)
    BY <1>0, <1>1 DEF PartsOK
  <2>2. PartFor(r)'
    BY <1>3 DEF PartFor
  <2>3. PartIn(s, r)'
    BY <2>1, <1>1, <1>3 DEF PartIn, Came
  <2> QED BY <1>0, <1>1, <1>2, <2>2, <2>3, PartsKept
<1>8. ReceiptOK'
  <2>1. "ended" \notin Zeroed
    BY DEF Zeroed
  <2> QED BY <2>1, <1>0, <1>1, <1>2, <1>3, ReceiptKept
<1> QED BY <1>2, <1>3, <1>5, <1>6, <1>7, <1>8

-----------------------------------------------------------------------------
(* The steps, one by one: opening *)

\* A rank that is somewhere in a session.
LEMMA InSession ==
    ASSUME IInv, NEW r \in Rank, pc[r] # "ended"
    PROVE  /\ TypeOK /\ Protocol /\ OpensAlike /\ FileOK /\ PartsOK /\ ReceiptOK /\ HandlesOK
           /\ session[r] \in Session /\ modes[session[r]] \in Mode
           /\ GateOf(session[r], pc[r])
  BY DEF IInv, Protocol, SessionsOK, GatesOK, TypeOK

\* Rank zero looks at what there is.
LEMMA PreflightKeeps ==
    ASSUME IInv, Preflight
    PROVE  IInv'
<1> DEFINE s == session[0]
<1>1. 0 \in Rank /\ pc[0] = "preflight" /\ pc[0] # "ended"
  BY Constants DEF Preflight
<1>2. TypeOK /\ HandlesOK /\ s \in Session
  BY <1>1, InSession
<1>3. TypeOK'
  <2>1. serial' \in 0 .. 1
    <3>1. serial = 0
      BY <1>1, <1>2 DEF HandlesOK, Serial, Publishing
    <3>2. serial' = serial + 1 \/ serial' = serial
      BY DEF Preflight
    <3> QED BY <3>1, <3>2
  <2>2. /\ came' \in [Session -> [Meeting -> [Rank -> {"no", "well", "failed"}]]]
        /\ pc' \in [Rank -> {"ended"} \cup Place \cup Meeting]
    BY <1>1, <1>2, ComeEffect, MoveEffect DEF Preflight, Come, Meeting, Place, TypeOK, RanksOK
  <2> QED BY <2>1, <2>2, <1>2 DEF Preflight, TypeOK, RanksOK, disk, within
<1>4. CASE ModeOf(0) # "w" /\ exists
  <2>1. MayReach(0, "checking")
    BY <1>1 DEF MayReach, Nr, GateOf, Publishing
  <2>2. Move(0, "checking") /\ UNCHANGED <<disk, session, modes, error>>
    BY <1>4 DEF Preflight, Move, within
  <2>3. "checking" \notin Zeroed /\ "checking" \in Place \ {"committing", "releasing"}
    BY DEF Zeroed, Place
  <2>4. /\ Local(0) /\ pc'[0] = "checking"
        /\ Protocol' /\ OpensAlike' /\ FileOK' /\ PartsOK' /\ ReceiptOK'
    BY <1>1, <1>4, <2>1, <2>2, <2>3, QuietMove
  <2>5. HandlesOK'
    BY <1>1, <1>2, <1>4, <2>4, Constants DEF Preflight, HandlesOK, Serial, Publishing, Inside, Local, TypeOK
  <2> QED BY <1>3, <2>4, <2>5 DEF IInv
<1>5. CASE ~(ModeOf(0) # "w" /\ exists)
  <2>1. MayReach(0, "SlabIO.open") /\ Nr(pc[0]) < Nr("SlabIO.open")
    BY <1>1 DEF MayReach, Nr, GateOf, Publishing, RootPlace
  <2>2. Come(0, "SlabIO.open", FALSE) /\ UNCHANGED <<disk, session, modes, outcome, error, native, serial>>
    BY <1>5 DEF Preflight, within
  <2>3. "SlabIO.open" \in Meeting \ {"H5Dcreate", "H5Dwrite"}
    BY DEF Meeting
  <2>4. /\ Local(0) /\ pc'[0] = "SlabIO.open"
        /\ Protocol' /\ OpensAlike' /\ FileOK' /\ PartsOK' /\ ReceiptOK'
    BY <1>1, <2>1, <2>2, <2>3, QuietCome
  <2>5. HandlesOK'
    BY <1>1, <1>2, <2>2, <2>4, HandlesKept DEF Inside, Serial, Publishing
  <2> QED BY <1>3, <2>4, <2>5 DEF IInv
<1> QED BY <1>4, <1>5

\* The meeting in front of the open.
LEMMA OpenedKeeps ==
    ASSUME IInv, NEW r \in Rank, Opened(r)
    PROVE  IInv'
<1> DEFINE s == session[r]
<1>1. pc[r] = "SlabIO.open" /\ pc[r] # "ended" /\ Met(r, "SlabIO.open")
  BY DEF Opened, Met
<1>2. TypeOK /\ HandlesOK /\ s \in Session /\ modes[s] \in Mode
  BY <1>1, InSession
<1>3. TypeOK'
  BY <1>1, <1>2, ComeEffect, MoveEffect, EndEffect, ZenonT(60)
     DEF Opened, TypeOK, RanksOK, Come, Move, Meeting, Place, disk, within, End
<1>4. /\ Refused(r, "SlabIO.open") => RefusedIn(s, "SlabIO.open")
      /\ ~Refused(r, "SlabIO.open") => WellIn(s, "SlabIO.open")
  BY <1>1, <1>2, MetMeans DEF Meeting
<1>5. UNCHANGED <<disk, session, modes, error, native, serial>>
  BY DEF Opened, within
<1>6. CASE Refused(r, "SlabIO.open")
  <2>1. End(r, "raised") /\ MayEnd(r, "raised")
    BY <1>6, <1>4 DEF Opened, MayEnd
  <2>2. Local(r) /\ pc'[r] = "ended" /\ Protocol' /\ OpensAlike' /\ FileOK' /\ PartsOK' /\ ReceiptOK'
    BY <1>1, <1>4, <1>5, <1>6, <2>1, QuietEnd
  <2>3. HandlesOK'
    BY <1>1, <1>2, <1>5, <2>2, HandlesKept DEF Inside, Serial, Publishing
  <2> QED BY <1>3, <2>2, <2>3 DEF IInv
<1>7. CASE ~Refused(r, "SlabIO.open") /\ ModeOf(r) = "w" /\ r = 0
  <2>1. Move(r, "replacing")
    BY <1>7 DEF Opened
  <2>2. MayReach(r, "replacing")
    BY <1>1, <1>4, <1>7 DEF MayReach, Nr, GateOf, Publishing, ModeOf
  <2>3. "replacing" \notin Zeroed /\ "replacing" \in Place \ {"committing", "releasing"}
    BY DEF Zeroed, Place
  <2>4. Local(r) /\ pc'[r] = "replacing" /\ Protocol' /\ OpensAlike' /\ FileOK' /\ PartsOK' /\ ReceiptOK'
    BY <1>1, <1>5, <2>1, <2>2, <2>3, QuietMove
  <2>5. HandlesOK'
    BY <1>1, <1>2, <1>5, <2>4, HandlesKept DEF Inside, Serial, Publishing
  <2> QED BY <1>3, <2>4, <2>5 DEF IInv
<1>8. CASE ~Refused(r, "SlabIO.open") /\ ~(ModeOf(r) = "w" /\ r = 0)
  <2>0. PICK m \in {"replace_inode", "H5Fopen"} :
          m = IF ModeOf(r) = "w" THEN "replace_inode" ELSE "H5Fopen"
    OBVIOUS
  <2>1. Come(r, m, FALSE) /\ outcome' = outcome
    BY <1>8, <2>0 DEF Opened
  <2>2. MayReach(r, m) /\ Nr(pc[r]) < Nr(m)
    BY <1>1, <1>4, <1>8, <2>0 DEF MayReach, Nr, GateOf, Publishing, RootPlace, ModeOf
  <2>3. m \in Meeting \ {"H5Dcreate", "H5Dwrite"}
    BY DEF Meeting
  <2>4. Local(r) /\ pc'[r] = m /\ Protocol' /\ OpensAlike' /\ FileOK' /\ PartsOK' /\ ReceiptOK'
    BY <1>1, <1>5, <2>1, <2>2, <2>3, QuietCome
  <2>5. HandlesOK'
    BY <1>1, <1>2, <1>5, <2>4, HandlesKept DEF Inside, Serial, Publishing
  <2> QED BY <1>3, <2>4, <2>5 DEF IInv
<1> QED BY <1>6, <1>7, <1>8

\* Rank zero cannot unlink.
LEMMA UnlinkFailsKeeps ==
    ASSUME IInv, UnlinkFails
    PROVE  IInv'
<1> DEFINE s == session[0]
<1>1. 0 \in Rank /\ pc[0] = "replacing" /\ pc[0] # "ended"
  BY Constants DEF UnlinkFails
<1>2. TypeOK /\ Protocol /\ HandlesOK /\ s \in Session /\ GateOf(s, "replacing")
  BY <1>1, InSession
<1>3. TypeOK'
  <2>1. faults' \in 0 .. MaxFaults
    BY <1>2, MeetingsAssumption DEF UnlinkFails, MayFail, TypeOK, RanksOK
  <2>2. /\ outcome' \in [Session -> [Rank -> {"none", "ok", "raised"}]]
        /\ pc' \in [Rank -> {"ended"} \cup Place \cup Meeting] /\ came' = came
    BY <1>1, <1>2, EndEffect DEF UnlinkFails
  <2> QED BY <2>1, <2>2, <1>2 DEF UnlinkFails, TypeOK, RanksOK, disk, within
<1>4. UNCHANGED <<disk, session, modes, error, native, serial>> /\ End(0, "raised")
  BY DEF UnlinkFails, within
<1>5. came[s]["replace_inode"][0] = "no"
  <2> Nr("replacing") < Nr("replace_inode")
    BY DEF Nr
  <2> QED BY <1>1, <1>2, NotYet DEF Meeting
<1>6. MayEnd(0, "raised") /\ modes[s] = "w"
  BY <1>2, <1>5 DEF MayEnd, NotUnlinked, GateOf, Came
<1>7. Local(0) /\ pc'[0] = "ended" /\ Protocol' /\ OpensAlike' /\ FileOK' /\ PartsOK' /\ ReceiptOK'
  BY <1>1, <1>4, <1>6, QuietEnd
<1>8. HandlesOK'
  BY <1>1, <1>2, <1>4, <1>7, HandlesKept DEF Inside, Serial, Publishing
<1> QED BY <1>3, <1>7, <1>8 DEF IInv

\* From the barrier to the open.
LEMMA ReplacedKeeps ==
    ASSUME IInv, NEW r \in Rank, Replaced(r)
    PROVE  IInv'
<1> DEFINE s == session[r]
<1>1. pc[r] = "replace_inode" /\ pc[r] # "ended" /\ Met(r, "replace_inode")
  BY DEF Replaced, Met
<1>2. TypeOK /\ HandlesOK /\ s \in Session /\ GateOf(s, "replace_inode")
  BY <1>1, InSession
<1>3. TypeOK'
  BY <1>1, <1>2, ComeEffect DEF Replaced, TypeOK, RanksOK, Come, Meeting, Place, disk, within
<1>4. CompleteIn(s, "replace_inode")
  BY <1>1, <1>2, MetMeans DEF Meeting
<1>5. UNCHANGED <<disk, session, modes, outcome, error, native, serial>> /\ Come(r, "H5Fopen", FALSE)
  BY DEF Replaced, within
<1>6. MayReach(r, "H5Fopen") /\ Nr(pc[r]) < Nr("H5Fopen")
  BY <1>1, <1>2, <1>4 DEF MayReach, Nr, GateOf, Publishing, RootPlace
<1>7. Local(r) /\ pc'[r] = "H5Fopen" /\ Protocol' /\ OpensAlike' /\ FileOK' /\ PartsOK' /\ ReceiptOK'
  <2> "H5Fopen" \in Meeting \ {"H5Dcreate", "H5Dwrite"}
    BY DEF Meeting
  <2> QED BY <1>1, <1>5, <1>6, QuietCome
<1>8. HandlesOK'
  BY <1>1, <1>2, <1>5, <1>7, HandlesKept DEF Inside, Serial, Publishing
<1> QED BY <1>3, <1>7, <1>8 DEF IInv

-----------------------------------------------------------------------------
(* Closing and publishing, where the file is left alone *)

\* The bound on the faults is kept.
LEMMA FaultsBounded ==
    ASSUME TypeOK, NEW c, NEW f \in BOOLEAN, MayFail(c, f)
    PROVE  faults' \in 0 .. MaxFaults
  BY MeetingsAssumption DEF MayFail, TypeOK, RanksOK

\* The agreement on the receipt's initialization.
LEMMA InitializedKeeps ==
    ASSUME IInv, NEW r \in Rank, Initialized(r)
    PROVE  IInv'
<1> DEFINE s == session[r]
<1>1. pc[r] = "initialize_receipt" /\ pc[r] # "ended" /\ Met(r, "initialize_receipt")
  BY DEF Initialized, Met
<1>2. TypeOK /\ Protocol /\ HandlesOK /\ s \in Session /\ GateOf(s, "initialize_receipt")
  BY <1>1, InSession
<1>3. /\ CompleteIn(s, "initialize_receipt")
      /\ Refused(r, "initialize_receipt") => RefusedIn(s, "initialize_receipt")
      /\ ~Refused(r, "initialize_receipt") => WellIn(s, "initialize_receipt")
  BY <1>1, <1>2, MetMeans DEF Meeting
<1>4. modes[s] # "r"
  BY <1>2, OpenBehind DEF Inside
<1>5. PICK label \in {"closing", "writing"} :
        label = IF Refused(r, "initialize_receipt") THEN "closing" ELSE "writing"
  OBVIOUS
<1>6. UNCHANGED <<disk, session, modes, error, native, serial>> /\ Move(r, label)
  BY <1>5 DEF Initialized, within
<1>7. TypeOK'
  BY <1>1, <1>2, MoveEffect DEF Initialized, TypeOK, RanksOK, Move, Meeting, Place, disk, within
<1>8. MayReach(r, label)
  BY <1>1, <1>3, <1>4, <1>5 DEF MayReach, Nr, GateOf, Publishing, RootPlace
<1>9. Local(r) /\ pc'[r] = label /\ Protocol' /\ OpensAlike' /\ FileOK' /\ PartsOK' /\ ReceiptOK'
  <2> label \in Place \ {"committing", "releasing"} /\ pc[r] \in Zeroed /\ label # "checking"
    BY <1>1 DEF Place, Zeroed
  <2> QED BY <1>1, <1>4, <1>6, <1>8, QuietMove
<1>10. HandlesOK'
  BY <1>1, <1>2, <1>6, <1>9, HandlesKept DEF Inside, Serial, Publishing
<1> QED BY <1>7, <1>9, <1>10 DEF IInv

\* Into the collective close.
LEMMA CloseKeeps ==
    ASSUME IInv, NEW r \in Rank, Close(r)
    PROVE  IInv'
<1> DEFINE s == session[r]
<1>1. pc[r] = "closing" /\ pc[r] # "ended"
  BY DEF Close
<1>2. TypeOK /\ HandlesOK /\ s \in Session /\ GateOf(s, "closing")
  BY <1>1, InSession
<1>3. TypeOK'
  BY <1>1, <1>2, ComeEffect DEF Close, TypeOK, RanksOK, Come, Meeting, Place, disk, within
<1>4. UNCHANGED <<disk, session, modes, outcome, error, native, serial>> /\ Come(r, "H5Fclose", FALSE)
  BY DEF Close, within
<1>5. MayReach(r, "H5Fclose") /\ Nr(pc[r]) < Nr("H5Fclose")
  BY <1>1, <1>2 DEF MayReach, Nr, GateOf, Publishing, RootPlace
<1>6. Local(r) /\ pc'[r] = "H5Fclose" /\ Protocol' /\ OpensAlike' /\ FileOK' /\ PartsOK' /\ ReceiptOK'
  <2> "H5Fclose" \in Meeting \ {"H5Dcreate", "H5Dwrite"}
    BY DEF Meeting
  <2> QED BY <1>1, <1>4, <1>5, QuietCome
<1>7. HandlesOK'
  BY <1>1, <1>2, <1>4, <1>6, HandlesKept DEF Inside, Serial, Publishing
<1> QED BY <1>3, <1>6, <1>7 DEF IInv

\* The close returns, and the rank says whether all of it went well.
LEMMA CloseFileKeeps ==
    ASSUME IInv, NEW r \in Rank, CloseFile(r)
    PROVE  IInv'
<1> DEFINE s == session[r]
<1>1. pc[r] = "H5Fclose" /\ pc[r] # "ended" /\ Met(r, "H5Fclose")
  BY DEF CloseFile, Met
<1>2. TypeOK /\ HandlesOK /\ s \in Session /\ error[r] \in BOOLEAN
  BY <1>1, InSession DEF TypeOK, RanksOK
<1>3. CompleteIn(s, "H5Fclose")
  BY <1>1, <1>2, MetMeans DEF Meeting
<1>4. PICK fails \in BOOLEAN :
        /\ MayFail("close", fails)
        /\ error' = [error EXCEPT ![r] = @ \/ fails]
        /\ Come(r, "data_close", error[r] \/ fails)
  BY DEF CloseFile
<1>5. UNCHANGED <<disk, session, modes, outcome, serial>> /\ native' = native \ {r}
  BY DEF CloseFile, within
<1>6. error' \in [Rank -> BOOLEAN] /\ \A q \in Rank : q # r => error'[q] = error[q]
  BY <1>2, <1>4 DEF TypeOK, RanksOK
<1>7. PICK f \in BOOLEAN : f = (error[r] \/ fails)
  BY <1>2
<1>8. TypeOK'
  <2>1. /\ came' \in [Session -> [Meeting -> [Rank -> {"no", "well", "failed"}]]]
        /\ pc' \in [Rank -> {"ended"} \cup Place \cup Meeting]
    BY <1>2, <1>4, <1>7, ComeEffect DEF Come, Meeting
  <2>2. faults' \in 0 .. MaxFaults
    BY <1>2, <1>4, FaultsBounded
  <2> QED BY <2>1, <2>2, <1>2, <1>5, <1>6 DEF CloseFile, TypeOK, RanksOK, disk, within
<1>9. MayReach(r, "data_close") /\ Nr(pc[r]) < Nr("data_close")
  BY <1>1, <1>3 DEF MayReach, Nr, GateOf, Publishing, RootPlace
<1>10. /\ Local(r) /\ pc'[r] = "data_close"
       /\ Protocol' /\ OpensAlike' /\ FileOK' /\ PartsOK' /\ ReceiptOK'
  <2> "data_close" \in Meeting \ {"H5Dcreate", "H5Dwrite"}
    BY DEF Meeting
  <2>1. Come(r, "data_close", f) /\ (error[r] => f)
    BY <1>4, <1>7
  <2> QED BY <2>1, <1>1, <1>5, <1>6, <1>9, QuietCome
<1>11. HandlesOK'
  BY <1>1, <1>2, <1>5, <1>10, Constants DEF HandlesOK, Local, Inside, Serial, Publishing, TypeOK
<1> QED BY <1>8, <1>10, <1>11 DEF IInv

\* A native close that fails costs what the ranks have written, and says nothing.
LEMMA NativeCloseFailsKeeps ==
    ASSUME IInv, NEW r \in Rank, NativeCloseFails(r)
    PROVE  IInv'
<1> DEFINE s == session[r]
<1>1. pc[r] = "H5Fclose" /\ pc[r] # "ended" /\ Met(r, "H5Fclose")
  BY DEF NativeCloseFails, Met
<1>2. /\ TypeOK /\ Protocol /\ OpensAlike /\ FileOK /\ PartsOK /\ ReceiptOK /\ HandlesOK
      /\ s \in Session /\ GateOf(s, "H5Fclose") /\ error[r] \in BOOLEAN
  BY <1>1, InSession DEF TypeOK, RanksOK
<1>3. /\ UNCHANGED <<exists, attr, session, modes, error, serial, outcome, crashes>>
      /\ unclosed' = TRUE /\ receipt' \in {receipt, "none"} /\ native' = native \ {r}
      /\ modes[s] # "r" /\ MayFail("H5Fclose", TRUE)
  BY DEF NativeCloseFails, within, ModeOf
<1>4. block' \in [Rank -> Content]
  BY <1>2 DEF NativeCloseFails, TypeOK, Content
<1>5. PICK f \in BOOLEAN : f = error[r] /\ Come(r, "data_close", f)
  BY <1>2 DEF NativeCloseFails
<1>6. CompleteIn(s, "H5Fclose")
  BY <1>1, <1>2, MetMeans DEF Meeting
<1>7. /\ came' \in [Session -> [Meeting -> [Rank -> {"no", "well", "failed"}]]]
      /\ pc' \in [Rank -> {"ended"} \cup Place \cup Meeting]
      /\ pc'[r] = "data_close"
      /\ came'[s]["data_close"][r] = IF f THEN "failed" ELSE "well"
      /\ \A m \in Meeting : m # "data_close" => came'[s][m][r] = came[s][m][r]
  <2>1. "data_close" \in Meeting
    BY DEF Meeting
  <2> QED BY <2>1, <1>2, <1>5, ComeOwn
<1>8. TypeOK'
  <2>1. faults' \in 0 .. MaxFaults
    BY <1>2, <1>3, FaultsBounded
  <2> QED BY <2>1, <1>2, <1>3, <1>4, <1>7 DEF TypeOK, RanksOK
<1>9. MayReach(r, "data_close") /\ Nr(pc[r]) < Nr("data_close") /\ "data_close" \in Meeting
  BY <1>1, <1>6 DEF MayReach, Nr, GateOf, Publishing, RootPlace, Meeting
<1>10. Local(r) /\ Protocol'
  BY <1>1, <1>2, <1>3, <1>5, <1>9, ComeKeepsProtocol
<1>11. session[0] = s /\ exists
  <2>1. session[0] = s
    BY <1>1, <1>2, Together, Constants DEF Inside
  <2>2. CompleteIn(s, "initialize_receipt")
    BY <1>2, <1>3 DEF GateOf
  <2>3. CompleteIn(s, "zeros")
    BY <2>2, <1>2, MeetingGate DEF GateOf, Meeting
  <2>4. CompleteIn(s, "H5Dcreate")
    BY <2>3, <1>2, MeetingGate DEF GateOf, Meeting
  <2> QED BY <2>1, <2>4, <1>2 DEF FileOK, CompleteIn
<1>12. OpensAlike'
  BY <1>1, <1>2, <1>3, <1>7, <1>10, OpensKept
<1>13. FileOK'
  BY <1>3, <1>11 DEF FileOK
<1>14. PartsOK'
  <2>1. ASSUME NEW q \in Rank
        PROVE  PartFor(q)'
    <3>1. CASE q = r
      BY <3>1, <1>7 DEF PartFor
    <3>2. CASE q # r
      <4>1. /\ pc'[q] = pc[q] /\ error'[q] = error[q] /\ session'[q] = session[q] /\ PartFor(q)
            /\ pc[q] # "ended" => session[q] \in Session
        BY <3>2, <1>2, <1>3, <1>10 DEF Local, PartsOK, Protocol, SessionsOK
      <4>2. \A u \in Session, m \in Meeting : came'[u][m][q] = came[u][m][q]
        BY <3>2, <1>10 DEF Local
      <4> QED BY <4>1, <4>2, <1>3 DEF PartFor, Meeting
    <3> QED BY <3>1, <3>2
  <2>2. ASSUME NEW q \in Rank, NEW u \in Session
        PROVE  PartIn(u, q)'
    <3>1. PartIn(u, q) /\ PartFor(r)
      BY <1>2 DEF PartsOK
    <3>2. CASE q = r /\ u = s
      BY <3>1, <3>2, <1>1, <1>3, <1>5, <1>7 DEF PartIn, PartFor, Meeting
    <3>3. CASE q # r \/ u # s
      <4>1. \A m \in Meeting : came'[u][m][q] = came[u][m][q]
        BY <3>3, <1>10 DEF Local
      <4> QED BY <4>1, <3>1, <1>3 DEF PartIn, Meeting
    <3> QED BY <3>2, <3>3
  <2> QED BY <2>1, <2>2 DEF PartsOK
<1>15. ReceiptOK'
  <2>1. pc[0] \in {"H5Fopen", "data_close"} \cup Inside
    BY <1>1, <1>2, Together, Constants DEF Inside
  <2>2. pc'[0] \notin {"committing", "releasing"}
    <3>1. CASE r = 0
      BY <3>1, <1>7
    <3>2. CASE r # 0
      BY <3>2, <2>1, <1>10, Constants DEF Local, Inside
    <3> QED BY <3>1, <3>2
  <2>3. came[s]["metadata_commit"][0] = "no"
    <3>1. pc[0] # "ended" /\ Nr(pc[0]) < Nr("metadata_commit")
      BY <2>1 DEF Inside, Nr
    <3> QED BY <3>1, <1>2, <1>11, NotYet, Constants DEF Meeting
  <2>4. came'[s]["metadata_commit"][0] = "no"
    <3>1. CASE r = 0
      BY <3>1, <2>3, <1>7 DEF Meeting
    <3>2. CASE r # 0
      BY <3>2, <2>3, <1>2, <1>10, Constants, ZenonT(60) DEF Local, Meeting
    <3> QED BY <3>1, <3>2
  <2> QED BY <2>2, <2>4, <1>3, <1>11 DEF ReceiptOK, CommittedIsWhole
<1>16. HandlesOK'
  BY <1>1, <1>2, <1>3, <1>7, <1>10, Constants DEF HandlesOK, Local, Inside, Serial, Publishing, TypeOK
<1> QED BY <1>8, <1>10, <1>12, <1>13, <1>14, <1>15, <1>16 DEF IInv

\* The agreement on the data.
LEMMA ClosedKeeps ==
    ASSUME IInv, NEW r \in Rank, Closed(r)
    PROVE  IInv'
<1> DEFINE s == session[r]
<1>1. pc[r] = "data_close" /\ pc[r] # "ended" /\ Met(r, "data_close")
  BY DEF Closed, Met
<1>2. TypeOK /\ Protocol /\ HandlesOK /\ s \in Session /\ GateOf(s, "data_close")
  BY <1>1, InSession
<1>3. /\ Refused(r, "data_close") => RefusedIn(s, "data_close")
      /\ ~Refused(r, "data_close") => WellIn(s, "data_close")
      /\ Came(s, "H5Fclose", r)
  BY <1>1, <1>2, MetMeans DEF Meeting, GateOf, CompleteIn
<1>4. UNCHANGED <<disk, session, modes, error, native, serial>>
  BY DEF Closed, within
<1>5. TypeOK'
  BY <1>1, <1>2, MoveEffect, EndEffect
     DEF Closed, Proceed, TypeOK, RanksOK, Move, End, Meeting, Place, disk, within
<1>6. CASE Refused(r, "data_close") \/ ModeOf(r) = "r"
  <2>1. PICK how \in {"ok", "raised"} : how = IF Refused(r, "data_close") THEN "raised" ELSE "ok"
    OBVIOUS
  <2>2. End(r, how) /\ MayEnd(r, how)
    BY <1>6, <1>3, <2>1 DEF Closed, Proceed, MayEnd, ModeOf
  <2>3. Local(r) /\ pc'[r] = "ended" /\ Protocol' /\ OpensAlike' /\ FileOK' /\ PartsOK' /\ ReceiptOK'
    BY <1>1, <1>3, <1>4, <2>2, QuietEnd
  <2>4. HandlesOK'
    BY <1>1, <1>2, <1>4, <2>3, HandlesKept DEF Inside, Serial, Publishing
  <2> QED BY <1>5, <2>3, <2>4 DEF IInv
<1>7. CASE ~Refused(r, "data_close") /\ ModeOf(r) # "r"
  <2>1. Move(r, "materializing")
    BY <1>7 DEF Closed, Proceed
  <2>2. MayReach(r, "materializing")
    BY <1>1, <1>3, <1>7 DEF MayReach, Nr, GateOf, Publishing, RootPlace, ModeOf
  <2>3. "materializing" \in Place \ {"committing", "releasing"} /\ pc[r] \in Zeroed
    BY <1>1 DEF Zeroed, Place
  <2>4. /\ Local(r) /\ pc'[r] = "materializing"
        /\ Protocol' /\ OpensAlike' /\ FileOK' /\ PartsOK' /\ ReceiptOK'
    BY <1>1, <1>4, <2>1, <2>2, <2>3, QuietMove
  <2>5. HandlesOK'
    BY <1>1, <1>2, <1>4, <2>4, HandlesKept DEF Inside, Serial, Publishing
  <2> QED BY <1>5, <2>4, <2>5 DEF IInv
<1> QED BY <1>6, <1>7

\* The deferred metadata is made ready.
LEMMA MaterializeKeeps ==
    ASSUME IInv, NEW r \in Rank, Materialize(r)
    PROVE  IInv'
<1> DEFINE s == session[r]
<1>1. pc[r] = "materializing" /\ pc[r] # "ended"
  BY DEF Materialize
<1>2. TypeOK /\ HandlesOK /\ s \in Session /\ GateOf(s, "materializing")
  BY <1>1, InSession
<1>3. PICK fails \in BOOLEAN :
        /\ MayFail("materialize", fails)
        /\ error' = [error EXCEPT ![r] = fails]
        /\ Come(r, "materialized", fails)
  BY DEF Materialize
<1>4. UNCHANGED <<disk, session, modes, outcome, native, serial>>
  BY DEF Materialize, within
<1>5. error' \in [Rank -> BOOLEAN] /\ \A q \in Rank : q # r => error'[q] = error[q]
  BY <1>2, <1>3 DEF TypeOK, RanksOK
<1>6. TypeOK'
  <2>1. /\ came' \in [Session -> [Meeting -> [Rank -> {"no", "well", "failed"}]]]
        /\ pc' \in [Rank -> {"ended"} \cup Place \cup Meeting]
    BY <1>2, <1>3, ComeEffect DEF Come, Meeting
  <2>2. faults' \in 0 .. MaxFaults
    BY <1>2, <1>3, FaultsBounded
  <2> QED BY <2>1, <2>2, <1>2, <1>4, <1>5 DEF Materialize, TypeOK, RanksOK, disk, within
<1>7. MayReach(r, "materialized") /\ Nr(pc[r]) < Nr("materialized")
  BY <1>1, <1>2 DEF MayReach, Nr, GateOf, Publishing, RootPlace
<1>8. /\ Local(r) /\ pc'[r] = "materialized"
      /\ Protocol' /\ OpensAlike' /\ FileOK' /\ PartsOK' /\ ReceiptOK'
  <2> "materialized" \in Meeting \ {"H5Dcreate", "H5Dwrite"}
    BY DEF Meeting
  <2> QED BY <1>1, <1>3, <1>4, <1>5, <1>7, QuietCome
<1>9. HandlesOK'
  BY <1>1, <1>2, <1>4, <1>8, HandlesKept DEF Inside, Serial, Publishing
<1> QED BY <1>6, <1>8, <1>9 DEF IInv

\* The agreement on the metadata.
LEMMA MaterializedKeeps ==
    ASSUME IInv, NEW r \in Rank, Materialized(r)
    PROVE  IInv'
<1> DEFINE s == session[r]
<1>1. pc[r] = "materialized" /\ pc[r] # "ended" /\ Met(r, "materialized")
  BY DEF Materialized, Met
<1>2. TypeOK /\ HandlesOK /\ s \in Session /\ GateOf(s, "materialized")
  BY <1>1, InSession
<1>3. /\ Refused(r, "materialized") => RefusedIn(s, "materialized")
      /\ ~Refused(r, "materialized") => WellIn(s, "materialized")
      /\ modes[s] # "r"
  BY <1>1, <1>2, MetMeans DEF Meeting, GateOf
<1>4. UNCHANGED <<disk, session, modes, error, native, serial>>
  BY DEF Materialized, within
<1>5. TypeOK'
  BY <1>1, <1>2, ComeEffect, MoveEffect, EndEffect, ZenonT(60)
     DEF Materialized, TypeOK, RanksOK, Come, Move, End, Meeting, Place, disk, within
<1>6. CASE Refused(r, "materialized")
  <2>2. End(r, "raised") /\ MayEnd(r, "raised")
    BY <1>6, <1>3 DEF Materialized, MayEnd
  <2>3. Local(r) /\ pc'[r] = "ended" /\ Protocol' /\ OpensAlike' /\ FileOK' /\ PartsOK' /\ ReceiptOK'
    BY <1>1, <1>3, <1>4, <2>2, QuietEnd
  <2>4. HandlesOK'
    BY <1>1, <1>2, <1>4, <2>3, HandlesKept DEF Inside, Serial, Publishing
  <2> QED BY <1>5, <2>3, <2>4 DEF IInv
<1>7. CASE ~Refused(r, "materialized") /\ r = 0
  <2>1. Move(r, "reopening")
    BY <1>7 DEF Materialized
  <2>2. MayReach(r, "reopening")
    BY <1>1, <1>3, <1>7 DEF MayReach, Nr, GateOf, Publishing, RootPlace
  <2>3. "reopening" \in Place \ {"committing", "releasing"} /\ pc[r] \in Zeroed
    BY <1>1 DEF Zeroed, Place
  <2>4. /\ Local(r) /\ pc'[r] = "reopening"
        /\ Protocol' /\ OpensAlike' /\ FileOK' /\ PartsOK' /\ ReceiptOK'
    BY <1>1, <1>4, <2>1, <2>2, <2>3, QuietMove
  <2>5. HandlesOK'
    BY <1>1, <1>2, <1>4, <2>4, HandlesKept DEF Inside, Serial, Publishing
  <2> QED BY <1>5, <2>4, <2>5 DEF IInv
<1>8. CASE ~Refused(r, "materialized") /\ r # 0
  <2>1. Come(r, "metadata_commit", FALSE) /\ outcome' = outcome
    BY <1>8 DEF Materialized
  <2>2. MayReach(r, "metadata_commit") /\ Nr(pc[r]) < Nr("metadata_commit")
    BY <1>1, <1>3, <1>8 DEF MayReach, Nr, GateOf, Publishing, RootPlace
  <2>3. "metadata_commit" \in Meeting \ {"H5Dcreate", "H5Dwrite"}
    BY DEF Meeting
  <2>4. /\ Local(r) /\ pc'[r] = "metadata_commit"
        /\ Protocol' /\ OpensAlike' /\ FileOK' /\ PartsOK' /\ ReceiptOK'
    BY <1>1, <1>4, <1>8, <2>1, <2>2, <2>3, QuietCome
  <2>5. HandlesOK'
    BY <1>1, <1>2, <1>4, <2>4, HandlesKept DEF Inside, Serial, Publishing
  <2> QED BY <1>5, <2>4, <2>5 DEF IInv
<1> QED BY <1>6, <1>7, <1>8

\* Rank zero takes its serial handle.
LEMMA ReopenKeeps ==
    ASSUME IInv, Reopen
    PROVE  IInv'
<1> DEFINE s == session[0]
<1>1. 0 \in Rank /\ pc[0] = "reopening" /\ pc[0] # "ended"
  BY Constants DEF Reopen
<1>2. TypeOK /\ HandlesOK /\ s \in Session /\ GateOf(s, "reopening")
  BY <1>1, InSession
<1>3. serial = 0 /\ serial' = 1
  <2>1. serial = 0
    BY <1>1, <1>2 DEF HandlesOK, Serial, Publishing
  <2> QED BY <2>1 DEF Reopen
<1>4. UNCHANGED <<disk, session, modes, error, native>> /\ Move(0, "stamping")
  BY DEF Reopen, within
<1>5. TypeOK'
  BY <1>1, <1>2, <1>3, MoveEffect DEF Reopen, TypeOK, RanksOK, Move, Meeting, Place, disk, within
<1>6. MayReach(0, "stamping")
  BY <1>1, <1>2 DEF MayReach, Nr, GateOf, Publishing, RootPlace
<1>7. Local(0) /\ pc'[0] = "stamping" /\ Protocol' /\ OpensAlike' /\ FileOK' /\ PartsOK' /\ ReceiptOK'
  <2> "stamping" \in Place \ {"committing", "releasing"} /\ pc[0] \in Zeroed
    BY <1>1 DEF Zeroed, Place
  <2> QED BY <1>1, <1>4, <1>6, QuietMove
<1>8. HandlesOK'
  BY <1>1, <1>2, <1>3, <1>4, <1>7 DEF HandlesOK, Local, Inside, Serial, Publishing, TypeOK
<1> QED BY <1>5, <1>7, <1>8 DEF IInv

\* Rank zero lets go of its serial handle, having committed or not.
LEMMA ReleaseKeeps ==
    ASSUME IInv, Release \/ PublishFails
    PROVE  IInv'
<1> DEFINE s == session[0]
<1>1. 0 \in Rank /\ pc[0] \in Publishing /\ pc[0] # "ended"
  BY Constants DEF Release, PublishFails, Publishing
<1>2. TypeOK /\ HandlesOK /\ s \in Session /\ GateOf(s, pc[0])
  BY <1>1, InSession
<1>3. PICK f \in BOOLEAN :
        /\ Come(0, "metadata_commit", f) /\ (f \/ pc[0] = "releasing")
        /\ error' = IF f THEN [error EXCEPT ![0] = TRUE] ELSE error
        /\ faults' \in 0 .. MaxFaults
  <2>1. CASE Release
    BY <2>1, <1>2 DEF Release, TypeOK, RanksOK
  <2>2. CASE PublishFails
    BY <2>2, <1>2, FaultsBounded DEF PublishFails
  <2> QED BY <2>1, <2>2
<1>4. UNCHANGED <<disk, session, modes, outcome, native, crashes>> /\ serial' = serial - 1
  BY DEF Release, PublishFails, within
<1>5. serial' = 0
  <2>1. serial = 1
    BY <1>1, <1>2 DEF HandlesOK, Serial
  <2> QED BY <2>1, <1>4
<1>6. error' \in [Rank -> BOOLEAN] /\ \A q \in Rank : q # 0 => error'[q] = error[q]
  BY <1>2, <1>3 DEF TypeOK, RanksOK
<1>7. TypeOK'
  <2>1. /\ came' \in [Session -> [Meeting -> [Rank -> {"no", "well", "failed"}]]]
        /\ pc' \in [Rank -> {"ended"} \cup Place \cup Meeting]
    BY <1>1, <1>2, <1>3, ComeEffect DEF Come, Meeting
  <2> QED BY <2>1, <1>2, <1>3, <1>4, <1>5, <1>6 DEF TypeOK, RanksOK, disk
<1>8. MayReach(0, "metadata_commit") /\ Nr(pc[0]) < Nr("metadata_commit")
  BY <1>1, <1>2 DEF MayReach, Nr, GateOf, Publishing, RootPlace
<1>9. /\ Local(0) /\ pc'[0] = "metadata_commit"
      /\ Protocol' /\ OpensAlike' /\ FileOK' /\ PartsOK' /\ ReceiptOK'
  <2> "metadata_commit" \in Meeting \ {"H5Dcreate", "H5Dwrite"}
    BY DEF Meeting
  <2> QED BY <1>1, <1>3, <1>4, <1>6, <1>8, QuietCome, ZenonT(60)
<1>10. HandlesOK'
  BY <1>1, <1>2, <1>4, <1>5, <1>9 DEF HandlesOK, Local, Inside, Serial, Publishing, TypeOK
<1> QED BY <1>7, <1>9, <1>10 DEF IInv

\* The agreement on the commit.
LEMMA CommittedKeeps ==
    ASSUME IInv, NEW r \in Rank, Committed(r)
    PROVE  IInv'
<1> DEFINE s == session[r]
<1>1. pc[r] = "metadata_commit" /\ pc[r] # "ended" /\ Met(r, "metadata_commit")
  BY DEF Committed, Met
<1>2. TypeOK /\ Protocol /\ HandlesOK /\ s \in Session /\ GateOf(s, "metadata_commit")
  BY <1>1, InSession
<1>3. /\ Refused(r, "metadata_commit") => RefusedIn(s, "metadata_commit")
      /\ ~Refused(r, "metadata_commit") => WellIn(s, "metadata_commit")
  BY <1>1, <1>2, MetMeans DEF Meeting
<1>4. modes[s] # "r"
  <2>1. WellIn(s, "materialized")
    BY <1>2 DEF GateOf
  <2>2. GateOf(s, "materialized")
    BY <2>1, <1>2, MeetingGate DEF Meeting
  <2> QED BY <2>2 DEF GateOf
<1>5. PICK how \in {"ok", "raised"} : how = IF Refused(r, "metadata_commit") THEN "raised" ELSE "ok"
  OBVIOUS
<1>6. UNCHANGED <<disk, session, modes, error, native, serial>> /\ End(r, how)
  BY <1>5 DEF Committed, within
<1>7. TypeOK'
  BY <1>1, <1>2, <1>5, <1>6, EndEffect DEF Committed, TypeOK, RanksOK, End, Meeting, Place, disk, within
<1>8. MayEnd(r, how)
  BY <1>3, <1>4, <1>5 DEF MayEnd
<1>9. Local(r) /\ pc'[r] = "ended" /\ Protocol' /\ OpensAlike' /\ FileOK' /\ PartsOK' /\ ReceiptOK'
  BY <1>1, <1>4, <1>6, <1>8, QuietEnd
<1>10. HandlesOK'
  BY <1>1, <1>2, <1>6, <1>9, HandlesKept DEF Inside, Serial, Publishing
<1> QED BY <1>7, <1>9, <1>10 DEF IInv

-----------------------------------------------------------------------------
(* Steps that change the file *)

\* The parts the ranks have written are not touched by a rank that comes to or leaves
\* one of these places.
LEMMA PartsUntouched ==
    ASSUME TypeOK, Protocol, PartsOK, NEW r \in Rank, Local(r), block' = block, unclosed' = unclosed,
           \A q \in Rank : q # r => error'[q] = error[q],
           pc'[r] \notin {"initialize_receipt", "closing", "H5Fclose"},
           \A m \in {"initialize_receipt", "H5Dwrite", "data_close"} :
             came'[session[r]][m][r] = came[session[r]][m][r]
    PROVE  PartsOK'
<1>1. session' = session /\ session[r] \in Session
  BY DEF Local, Protocol, SessionsOK
<1>2. PartFor(r)'
  BY DEF PartFor
<1>3. PartIn(session[r], r)
  BY <1>1 DEF PartsOK
<1>4. PartIn(session[r], r)'
  BY <1>1, <1>3 DEF PartIn, Came
<1> QED BY <1>2, <1>4, PartsKept

\* The receipt is refused, or accepted and, for an append, cleared.
LEMMA CheckReceiptKeeps ==
    ASSUME IInv, CheckReceipt
    PROVE  IInv'
<1> DEFINE s == session[0]
<1>1. 0 \in Rank /\ pc[0] = "checking" /\ pc[0] # "ended"
  BY Constants DEF CheckReceipt
<1>2. /\ TypeOK /\ Protocol /\ OpensAlike /\ FileOK /\ PartsOK /\ ReceiptOK /\ HandlesOK
      /\ s \in Session
  BY <1>1, InSession
<1>3. PICK f \in BOOLEAN :
        /\ receipt' = IF ~f /\ ModeOf(0) = "a" THEN "0" ELSE receipt
        /\ error' = [error EXCEPT ![0] = f]
        /\ Come(0, "SlabIO.open", f)
  BY DEF CheckReceipt
<1>4. /\ UNCHANGED <<exists, block, attr, unclosed, session, modes, outcome, native, crashes, faults>>
      /\ serial' = serial - 1
  BY DEF CheckReceipt, within
<1>5. serial' = 0
  <2>1. serial = 1
    BY <1>1, <1>2 DEF HandlesOK, Serial
  <2> QED BY <2>1, <1>4
<1>6. error' \in [Rank -> BOOLEAN] /\ \A q \in Rank : q # 0 => error'[q] = error[q]
  BY <1>2, <1>3 DEF TypeOK, RanksOK
<1>7. /\ came' \in [Session -> [Meeting -> [Rank -> {"no", "well", "failed"}]]]
      /\ pc' \in [Rank -> {"ended"} \cup Place \cup Meeting]
      /\ pc'[0] = "SlabIO.open"
      /\ \A m \in Meeting : m # "SlabIO.open" => came'[s][m][0] = came[s][m][0]
  <2>1. "SlabIO.open" \in Meeting
    BY DEF Meeting
  <2> QED BY <2>1, <1>1, <1>2, <1>3, ComeOwn
<1>8. TypeOK'
  BY <1>2, <1>3, <1>4, <1>5, <1>6, <1>7 DEF TypeOK, RanksOK
<1>9. MayReach(0, "SlabIO.open") /\ Nr(pc[0]) < Nr("SlabIO.open") /\ "SlabIO.open" \in Meeting
  BY <1>1 DEF MayReach, Nr, GateOf, Publishing, RootPlace, Meeting
<1>10. CASE receipt' = receipt
  <2>1. "SlabIO.open" \in Meeting \ {"H5Dcreate", "H5Dwrite"}
    BY DEF Meeting
  <2>2. /\ Local(0) /\ Protocol' /\ OpensAlike' /\ FileOK' /\ PartsOK' /\ ReceiptOK'
    BY <1>1, <1>3, <1>4, <1>6, <1>9, <1>10, <2>1, QuietCome DEF disk
  <2>3. HandlesOK'
    BY <1>1, <1>2, <1>4, <1>5, <1>7, <2>2 DEF HandlesOK, Local, Inside, Serial, Publishing, TypeOK
  <2> QED BY <1>8, <2>2, <2>3 DEF IInv
<1>11. CASE receipt' = "0"
  <2>1. Local(0) /\ Protocol'
    BY <1>1, <1>2, <1>3, <1>4, <1>9, ComeKeepsProtocol
  <2>2. session' = session /\ outcome' = outcome /\ outcome[s][0] = "none"
    BY <1>1, <1>2, <1>4 DEF Protocol, SessionsOK
  <2>3. OpensAlike'
    <3>1. ~Missed(s, 0)' /\ (OpenedIn(s, 0)' => OpenedIn(s, 0))
      BY <2>2, <1>7 DEF Missed, OpenedIn, AtIn, Came, Meeting
    <3> QED BY <3>1, <2>1, <1>1, <1>2, <1>4, <1>7, OpensKept
  <2>4. FileOK'
    <3>1. exists
      BY <1>1, <1>2 DEF FileOK
    <3> QED BY <3>1, <1>4 DEF FileOK
  <2>5. PartsOK'
    BY <1>1, <1>2, <1>4, <1>6, <1>7, <2>1, PartsUntouched DEF Meeting
  <2>6. ReceiptOK'
    <3>1. came[s]["metadata_commit"][0] = "no"
      <4> Nr("checking") < Nr("metadata_commit")
        BY DEF Nr
      <4> QED BY <1>1, <1>2, NotYet DEF Meeting
    <3> QED BY <3>1, <1>4, <1>7, <1>11 DEF ReceiptOK, CommittedIsWhole, Zeroed, Meeting
  <2>7. HandlesOK'
    BY <1>1, <1>2, <1>4, <1>5, <1>7, <2>1 DEF HandlesOK, Local, Inside, Serial, Publishing, TypeOK
  <2> QED BY <1>8, <2>1, <2>3, <2>4, <2>5, <2>6, <2>7 DEF IInv
<1> QED BY <1>3, <1>10, <1>11

\* Nobody holds the path when rank zero unlinks it.
LEMMA ReplaceInodeKeeps ==
    ASSUME IInv, ReplaceInode
    PROVE  IInv'
<1> DEFINE s == session[0]
<1>1. 0 \in Rank /\ pc[0] = "replacing" /\ pc[0] # "ended"
  BY Constants DEF ReplaceInode
<1>2. /\ TypeOK /\ Protocol /\ OpensAlike /\ FileOK /\ PartsOK /\ ReceiptOK /\ HandlesOK
      /\ s \in Session /\ GateOf(s, "replacing")
  BY <1>1, InSession
<1>3. /\ UNCHANGED <<session, modes, outcome, error, native, serial, crashes, faults>>
      /\ exists' = FALSE /\ receipt' = "none" /\ block' = [r \in Rank |-> Nothing] /\ attr' = Nothing
      /\ unclosed' = FALSE /\ Come(0, "replace_inode", FALSE)
  BY DEF ReplaceInode, within
<1>4. /\ came' \in [Session -> [Meeting -> [Rank -> {"no", "well", "failed"}]]]
      /\ pc' \in [Rank -> {"ended"} \cup Place \cup Meeting]
      /\ pc'[0] = "replace_inode"
      /\ \A m \in Meeting : m # "replace_inode" => came'[s][m][0] = came[s][m][0]
  <2>1. PICK f \in BOOLEAN : Come(0, "replace_inode", f)
    BY <1>3
  <2>2. "replace_inode" \in Meeting
    BY DEF Meeting
  <2> QED BY <2>2, <2>1, <1>1, <1>2, ComeOwn
<1>5. TypeOK'
  BY <1>2, <1>3, <1>4 DEF TypeOK, RanksOK, Content
<1>6. MayReach(0, "replace_inode") /\ Nr(pc[0]) < Nr("replace_inode") /\ "replace_inode" \in Meeting
  BY <1>1, <1>2 DEF MayReach, Nr, GateOf, Publishing, RootPlace, Meeting
<1>7. Local(0) /\ Protocol'
  BY <1>1, <1>2, <1>3, <1>6, ComeKeepsProtocol
<1>8. outcome[s][0] = "none" /\ modes[s] = "w" /\ CompleteIn(s, "SlabIO.open")
  BY <1>1, <1>2 DEF Protocol, SessionsOK, GateOf, WellIn, CompleteIn, Came
<1>9. \A m \in Meeting : Nr(m) > 2 => ~Came(s, m, 0)
  <2> Nr("replacing") = 2
    BY DEF Nr
  <2> QED BY <1>1, <1>2, NotYet, NrIsNat DEF Came
<1>10. ~CompleteIn(s, "H5Fopen") /\ ~CompleteIn(s, "H5Fclose") /\ came[s]["metadata_commit"][0] = "no"
  <2> Nr("H5Fopen") > 2 /\ Nr("H5Fclose") > 2 /\ Nr("metadata_commit") > 2
    BY DEF Nr
  <2> QED BY <1>1, <1>9 DEF CompleteIn, Came, Meeting
<1>11. \A q \in Rank : ~Came(s, "H5Dcreate", q) /\ ~Came(s, "data_close", q)
  BY <1>2, <1>10, MeetingGate DEF GateOf, Meeting
<1>12. OpensAlike'
  BY <1>1, <1>2, <1>4, <1>7, <1>8, OpensKept
<1>13. FileOK'
  <2>1. \A q \in Rank : ~Came(s, "H5Dcreate", q)'
    <3> SUFFICES ASSUME NEW q \in Rank
                 PROVE  ~Came(s, "H5Dcreate", q)'
      OBVIOUS
    <3>1. CASE q = 0
      BY <3>1, <1>3, <1>4, <1>11 DEF Came, Meeting
    <3>2. CASE q # 0
      BY <3>2, <1>2, <1>7, <1>11 DEF Local, Came, Meeting
    <3> QED BY <3>1, <3>2
  <2> QED BY <2>1, <1>3, <1>4 DEF FileOK
<1>14. PartsOK'
  <2>1. ASSUME NEW q \in Rank
        PROVE  PartFor(q)'
    <3>1. CASE q = 0
      BY <3>1, <1>4 DEF PartFor
    <3>2. CASE q # 0 /\ pc[q] \in {"closing", "H5Fclose"}
      <4>1. pc[0] \in {"H5Fopen", "data_close"} \cup Inside
        BY <1>1, <1>2, <3>2, Together DEF Inside
      <4> QED BY <4>1, <1>1 DEF Inside
    <3>3. CASE q # 0 /\ pc[q] \notin {"closing", "H5Fclose"}
      <4>1. /\ pc'[q] = pc[q] /\ error'[q] = error[q] /\ session'[q] = session[q] /\ PartFor(q)
            /\ pc[q] # "ended" => session[q] \in Session
        BY <3>3, <1>2, <1>3, <1>7 DEF Local, PartsOK, Protocol, SessionsOK
      <4>2. \A u \in Session, m \in Meeting : came'[u][m][q] = came[u][m][q]
        BY <3>3, <1>7 DEF Local
      <4> QED BY <4>1, <4>2, <3>3 DEF PartFor, Meeting
    <3> QED BY <3>1, <3>2, <3>3
  <2>2. ASSUME NEW q \in Rank, NEW u \in Session
        PROVE  PartIn(u, q)'
    <3>1. PartIn(u, q)
      BY <1>2 DEF PartsOK
    <3>2. came'[u]["data_close"][q] = came[u]["data_close"][q]
          /\ came'[u]["initialize_receipt"][q] = came[u]["initialize_receipt"][q]
      BY <1>4, <1>7, ZenonT(60) DEF Local, Meeting
    <3>3. session'[0] = u => came[u]["data_close"][q] = "no"
      BY <1>3, <1>11 DEF Came
    <3> QED BY <3>1, <3>2, <3>3 DEF PartIn
  <2> QED BY <2>1, <2>2 DEF PartsOK
<1>15. ReceiptOK'
  BY <1>3, <1>4, <1>10 DEF ReceiptOK, CommittedIsWhole, Zeroed, Meeting
<1>16. HandlesOK'
  BY <1>1, <1>2, <1>3, <1>4, <1>7, HandlesKept DEF Inside, Serial, Publishing
<1> QED BY <1>5, <1>7, <1>12, <1>13, <1>14, <1>15, <1>16 DEF IInv

\* The collective open for writing.
LEMMA OpenToWriteKeeps ==
    ASSUME IInv, NEW r \in Rank, OpenToWrite(r)
    PROVE  IInv'
<1> DEFINE s == session[r]
<1>1. pc[r] = "H5Fopen" /\ pc[r] # "ended" /\ Met(r, "H5Fopen")
  BY DEF OpenToWrite, Met
<1>2. /\ TypeOK /\ Protocol /\ OpensAlike /\ FileOK /\ PartsOK /\ ReceiptOK /\ HandlesOK
      /\ s \in Session /\ GateOf(s, "H5Fopen")
  BY <1>1, InSession
<1>3. /\ UNCHANGED <<receipt, block, attr, unclosed, session, modes, outcome, error, serial, crashes, faults>>
      /\ modes[s] # "r" /\ exists' = TRUE /\ native' = native \cup {r}
      /\ Come(r, "H5Dcreate", FALSE)
  BY DEF OpenToWrite, within, ModeOf
<1>4. CompleteIn(s, "H5Fopen")
  BY <1>1, <1>2, MetMeans DEF Meeting
<1>5. /\ came' \in [Session -> [Meeting -> [Rank -> {"no", "well", "failed"}]]]
      /\ pc' \in [Rank -> {"ended"} \cup Place \cup Meeting]
      /\ pc'[r] = "H5Dcreate"
      /\ \A m \in Meeting : m # "H5Dcreate" => came'[s][m][r] = came[s][m][r]
  <2>1. PICK f \in BOOLEAN : Come(r, "H5Dcreate", f)
    BY <1>3
  <2>2. "H5Dcreate" \in Meeting
    BY DEF Meeting
  <2> QED BY <2>2, <2>1, <1>2, ComeOwn
<1>6. TypeOK'
  BY <1>2, <1>3, <1>5 DEF TypeOK, RanksOK
<1>7. MayReach(r, "H5Dcreate") /\ Nr(pc[r]) < Nr("H5Dcreate") /\ "H5Dcreate" \in Meeting
  BY <1>1, <1>3, <1>4 DEF MayReach, Nr, GateOf, Publishing, RootPlace, Meeting
<1>8. Local(r) /\ Protocol'
  BY <1>1, <1>2, <1>3, <1>7, ComeKeepsProtocol
<1>9. OpensAlike'
  <2>1. CompleteIn(s, "SlabIO.open")
    BY <1>2 DEF GateOf, WellIn, CompleteIn, Came
  <2> QED BY <2>1, <1>1, <1>2, <1>3, <1>5, <1>8, OpensKept
<1>10. FileOK'
  BY <1>3 DEF FileOK
<1>11. PartsOK'
  BY <1>2, <1>3, <1>5, <1>8, PartsUntouched DEF Meeting
<1>12. ReceiptOK'
  <2>1. CASE exists
    <3>1. CommittedIsWhole' /\ \A u \in Session : CommittedBy(u)' <=> CommittedBy(u)
      BY <2>1, <1>2, <1>3 DEF CommittedIsWhole, CommittedBy, Whole, ReceiptOK
    <3>2. exists' = exists
      BY <2>1, <1>3
    <3> QED BY <1>1, <1>2, <1>3, <1>5, <1>8, <3>2, ReceiptKept DEF disk, Zeroed, Meeting
  <2>2. CASE ~exists
    <3>1. Whole'
      BY <2>2, <1>2, <1>3 DEF Whole, FileOK, Nothing, Torn
    <3>2. receipt = "none" /\ ~unclosed
      BY <2>2, <1>2 DEF FileOK
    <3>3. ~(pc'[0] \in Zeroed /\ came'[session[0]]["initialize_receipt"][0] = "well")
          /\ pc'[0] \notin {"committing", "releasing"}
          /\ \A u \in Session : session[0] = u => came'[u]["metadata_commit"][0] # "well"
      <4>1. CASE r = 0
        <5>1. came[s]["metadata_commit"][0] = "no"
          <6> Nr("H5Fopen") < Nr("metadata_commit")
            BY DEF Nr
          <6> QED BY <4>1, <1>1, <1>2, NotYet DEF Meeting
        <5> QED BY <5>1, <4>1, <1>5 DEF Zeroed, Meeting
      <4>2. CASE r # 0
        <5>1. pc'[0] = pc[0] /\ \A u \in Session, m \in Meeting : came'[u][m][0] = came[u][m][0]
          BY <4>2, <1>8, Constants DEF Local
        <5>2. pc[0] # "ended" => session[0] \in Session
          BY <1>2, Constants DEF Protocol, SessionsOK
        <5>3. ~(pc[0] \in Zeroed /\ came[session[0]]["initialize_receipt"][0] = "well")
          BY <3>2, <1>2 DEF ReceiptOK
        <5>4. pc[0] # "releasing" /\ \A u \in Session : session[0] = u => came[u]["metadata_commit"][0] # "well"
          BY <3>2, <1>2 DEF ReceiptOK, CommittedBy
        <5>5. pc[0] # "committing"
          <6> SUFFICES ASSUME pc[0] = "committing"
                       PROVE  FALSE
            OBVIOUS
          <6>1. session[0] \in Session /\ WellIn(session[0], "materialized")
            BY <1>2, <5>2, Constants DEF Protocol, GatesOK, GateOf, Publishing
          <6>2. WellIn(session[0], "initialize_receipt")
            BY <6>1, <1>2, PublishMeans
          <6> QED BY <6>2, <5>3, Constants DEF WellIn, Zeroed
        <5> QED BY <5>1, <5>2, <5>3, <5>4, <5>5 DEF Zeroed, Meeting
      <4> QED BY <4>1, <4>2
    <3> QED BY <3>1, <3>3, <1>3 DEF ReceiptOK, CommittedIsWhole
  <2> QED BY <2>1, <2>2
<1>13. HandlesOK'
  BY <1>1, <1>2, <1>3, <1>5, <1>8, Constants DEF HandlesOK, Local, Inside, Serial, Publishing, TypeOK
<1> QED BY <1>6, <1>8, <1>9, <1>10, <1>11, <1>12, <1>13 DEF IInv

\* The collective open for reading, which finds the file or does not.
LEMMA OpenToReadKeeps ==
    ASSUME IInv, NEW r \in Rank, OpenToRead(r)
    PROVE  IInv'
<1> DEFINE s == session[r]
<1>1. pc[r] = "H5Fopen" /\ pc[r] # "ended" /\ Met(r, "H5Fopen")
  BY DEF OpenToRead, Met
<1>2. /\ TypeOK /\ Protocol /\ OpensAlike /\ FileOK /\ PartsOK /\ ReceiptOK /\ HandlesOK
      /\ s \in Session /\ GateOf(s, "H5Fopen") /\ outcome[s][r] = "none"
  BY <1>1, InSession DEF Protocol, SessionsOK
<1>3. /\ UNCHANGED <<disk, session, modes, error, serial, crashes, faults>>
      /\ modes[s] = "r" /\ native' = IF exists THEN native \cup {r} ELSE native
      /\ IF exists THEN Move(r, "closing") ELSE End(r, "raised")
  BY DEF OpenToRead, within, ModeOf
<1>4. CompleteIn(s, "H5Fopen")
  BY <1>1, <1>2, MetMeans DEF Meeting
<1>5. PICK label \in {"closing", "ended"} : label = IF exists THEN "closing" ELSE "ended"
  OBVIOUS
<1>6. /\ came' = came /\ pc' \in [Rank -> {"ended"} \cup Place \cup Meeting] /\ pc'[r] = label
      /\ outcome' \in [Session -> [Rank -> {"none", "ok", "raised"}]]
      /\ exists => outcome' = outcome
      /\ \A u \in Session, q \in Rank : u # s \/ q # r => outcome'[u][q] = outcome[u][q]
  <2>1. CASE exists
    BY <2>1, <1>2, <1>3, <1>5, MoveEffect DEF Move, Place, TypeOK, RanksOK
  <2>2. CASE ~exists
    BY <2>2, <1>2, <1>3, <1>5, EndEffect
  <2> QED BY <2>1, <2>2
<1>7. TypeOK'
  BY <1>2, <1>3, <1>6 DEF TypeOK, RanksOK, disk
<1>8. came[s]["H5Fclose"][r] = "no" /\ came[s]["H5Dwrite"][r] = "no" /\ came[s]["H5Dcreate"][r] = "no"
      /\ came[s]["initialize_receipt"][r] = "no" /\ came[s]["metadata_commit"][r] = "no"
  <2> /\ Nr("H5Fopen") < Nr("H5Fclose") /\ Nr("H5Fopen") < Nr("H5Dwrite")
      /\ Nr("H5Fopen") < Nr("H5Dcreate") /\ Nr("H5Fopen") < Nr("initialize_receipt")
      /\ Nr("H5Fopen") < Nr("metadata_commit")
    BY DEF Nr
  <2> QED BY <1>1, <1>2, NotYet DEF Meeting
<1>9. Local(r) /\ Protocol'
  <2>1. CASE exists
    <3>1. MayReach(r, "closing")
      BY <1>1, <1>3, <1>4 DEF MayReach, Nr, GateOf, Publishing, RootPlace
    <3> QED BY <3>1, <2>1, <1>1, <1>2, <1>3, MoveKeepsProtocol DEF Move, Place
  <2>2. CASE ~exists
    <3>1. ~RefusedIn(s, "SlabIO.open")
      BY <1>2 DEF GateOf, WellIn, RefusedIn
    <3>2. MayEnd(r, "raised")
      BY <3>1, <1>3, <1>4, <1>8 DEF MayEnd, Came
    <3> QED BY <3>2, <2>2, <1>1, <1>2, <1>3, EndKeepsProtocol
  <2> QED BY <2>1, <2>2
<1>10. OpensAlike'
  <2>1. /\ \A q \in Rank : (OpenedIn(s, q) => exists) /\ (Missed(s, q) => ~exists)
        /\ exists' = exists /\ session' = session /\ modes' = modes
    BY <1>1, <1>2, <1>3 DEF OpensAlike, AtIn, disk
  <2>2. ASSUME NEW u \in Session, NEW q \in Rank, modes[u] = "r", u # s \/ q # r
        PROVE  (OpenedIn(u, q)' => OpenedIn(u, q)) /\ (Missed(u, q)' => Missed(u, q))
    BY <2>1, <2>2, <1>6, <1>9 DEF OpenedIn, Missed, AtIn, Came, RefusedIn, CompleteIn, Local
  <2>3. (OpenedIn(s, r)' => exists) /\ (Missed(s, r)' => ~exists)
    BY <2>1, <1>2, <1>5, <1>6, <1>8 DEF OpenedIn, Missed, AtIn, Came
  <2>4. ASSUME NEW u \in Session, NEW q \in Rank, NEW p \in Rank, modes[u] = "r", OpenedIn(u, q)'
        PROVE  ~Missed(u, p)'
    <3>1. CASE u = s
      BY <3>1, <2>1, <2>2, <2>3, <2>4
    <3>2. CASE u # s
      BY <3>2, <2>2, <2>4, <1>2 DEF OpensAlike
    <3> QED BY <3>1, <3>2
  <2>5. ASSUME NEW u \in Session, NEW q \in Rank, NEW p \in Rank, modes[u] = "r",
               session[q] = u, pc'[q] = "H5Fopen"
        PROVE  (OpenedIn(u, p)' => exists) /\ (Missed(u, p)' => ~exists)
    <3>1. q # r /\ pc[q] = "H5Fopen"
      BY <2>5, <1>5, <1>6, <1>9 DEF Local
    <3>2. (OpenedIn(u, p) => exists) /\ (Missed(u, p) => ~exists)
      BY <2>5, <3>1, <1>2 DEF OpensAlike, AtIn
    <3>3. CASE u = s /\ p = r
      BY <3>3, <2>3, <2>1 DEF OpenedIn, Missed, AtIn, Came, RefusedIn, CompleteIn
    <3>4. CASE u # s \/ p # r
      BY <3>4, <3>2, <2>2, <2>5
    <3> QED BY <3>3, <3>4
  <2> QED BY <2>1, <2>4, <2>5 DEF OpensAlike, AtIn
<1>11. FileOK'
  BY <1>2, <1>3, <1>5, <1>6, <1>9, FileKept DEF Came
<1>12. PartsOK'
  <2>1. PartFor(r)'
    <3> session' = session
      BY <1>3
    <3> QED BY <1>6, <1>8 DEF PartFor, Came
  <2>2. PartIn(s, r)
    BY <1>2 DEF PartsOK
  <2>3. PartIn(s, r)'
    BY <2>2, <1>3, <1>6 DEF PartIn, Came, disk
  <2> QED BY <2>1, <2>3, <1>2, <1>3, <1>9, PartsKept DEF disk
<1>13. ReceiptOK'
  <2>1. r = 0 => Nr(pc[0]) < 7
    BY <1>1 DEF Nr
  <2> QED BY <2>1, <1>2, <1>3, <1>5, <1>6, <1>8, <1>9, ReceiptKept
<1>14. HandlesOK'
  BY <1>1, <1>2, <1>3, <1>5, <1>6, <1>9, Constants DEF HandlesOK, Local, Inside, Serial, Publishing, TypeOK
<1> QED BY <1>7, <1>9, <1>10, <1>11, <1>12, <1>13, <1>14 DEF IInv

\* The receipt's dataset is created; its value may be anything.
LEMMA CreateReceiptKeeps ==
    ASSUME IInv, NEW r \in Rank, CreateReceipt(r)
    PROVE  IInv'
<1> DEFINE s == session[r]
<1>1. pc[r] = "H5Dcreate" /\ pc[r] # "ended" /\ Met(r, "H5Dcreate")
  BY DEF CreateReceipt, Met
<1>2. /\ TypeOK /\ Protocol /\ OpensAlike /\ FileOK /\ PartsOK /\ ReceiptOK /\ HandlesOK
      /\ s \in Session /\ GateOf(s, "H5Dcreate")
  BY <1>1, InSession
<1>3. /\ UNCHANGED <<exists, block, attr, unclosed, session, modes, outcome, error, native, serial, crashes, faults>>
      /\ receipt' = IF receipt = "none" THEN "unset" ELSE receipt
  BY DEF CreateReceipt, within, Created
<1>4. PICK f \in BOOLEAN : Come(r, "zeros", f)
  BY DEF CreateReceipt
<1>5. CompleteIn(s, "H5Dcreate")
  BY <1>1, <1>2, MetMeans DEF Meeting
<1>6. /\ came' \in [Session -> [Meeting -> [Rank -> {"no", "well", "failed"}]]]
      /\ pc' \in [Rank -> {"ended"} \cup Place \cup Meeting]
      /\ pc'[r] = "zeros"
      /\ \A m \in Meeting : m # "zeros" => came'[s][m][r] = came[s][m][r]
  <2>1. "zeros" \in Meeting
    BY DEF Meeting
  <2> QED BY <2>1, <1>2, <1>4, ComeOwn
<1>7. TypeOK'
  BY <1>2, <1>3, <1>6 DEF TypeOK, RanksOK
<1>8. MayReach(r, "zeros") /\ Nr(pc[r]) < Nr("zeros") /\ "zeros" \in Meeting
  BY <1>1, <1>5 DEF MayReach, Nr, GateOf, Publishing, RootPlace, Meeting
<1>9. Local(r) /\ Protocol'
  BY <1>1, <1>2, <1>3, <1>4, <1>8, ComeKeepsProtocol
<1>10. outcome[s][r] = "none" /\ session[0] = s /\ exists
  <2>1. session[0] = s
    BY <1>1, <1>2, Together, Constants DEF Inside
  <2> QED BY <2>1, <1>1, <1>2, <1>5 DEF FileOK, CompleteIn, Protocol, SessionsOK
<1>11. OpensAlike'
  <2>1. ~Missed(s, r)' /\ (OpenedIn(s, r)' => OpenedIn(s, r))
    BY <1>3, <1>6, <1>10 DEF Missed, OpenedIn, AtIn, Came, Meeting
  <2> QED BY <2>1, <1>1, <1>2, <1>3, <1>6, <1>9, OpensKept
<1>12. FileOK'
  BY <1>3, <1>10 DEF FileOK
<1>13. PartsOK'
  BY <1>2, <1>3, <1>6, <1>9, PartsUntouched DEF Meeting
<1>14. ReceiptOK'
  <2>1. CommittedIsWhole' /\ (receipt = "0" => receipt' = "0")
        /\ \A u \in Session : CommittedBy(u) => CommittedBy(u)'
    BY <1>2, <1>3 DEF CommittedIsWhole, CommittedBy, Whole, ReceiptOK
  <2>2. CASE r = 0
    <3>1. came[s]["metadata_commit"][0] = "no"
      <4> Nr("H5Dcreate") < Nr("metadata_commit")
        BY DEF Nr
      <4> QED BY <2>2, <1>1, <1>2, NotYet DEF Meeting
    <3> QED BY <2>1, <2>2, <3>1, <1>3, <1>6 DEF ReceiptOK, Zeroed, Meeting
  <2>3. CASE r # 0
    <3>1. pc'[0] = pc[0] /\ \A u \in Session, m \in Meeting : came'[u][m][0] = came[u][m][0]
      BY <2>3, <1>9, Constants DEF Local
    <3> QED BY <2>1, <3>1, <1>2, <1>3, <1>10 DEF ReceiptOK, Meeting
  <2> QED BY <2>2, <2>3
<1>15. HandlesOK'
  BY <1>1, <1>2, <1>3, <1>6, <1>9, HandlesKept DEF Inside, Serial, Publishing
<1> QED BY <1>7, <1>9, <1>11, <1>12, <1>13, <1>14, <1>15 DEF IInv

\* A rank that leaves the constructor holds the path.
LEMMA CreateFailsKeeps ==
    ASSUME IInv, NEW r \in Rank, CreateFails(r)
    PROVE  IInv'
<1> DEFINE s == session[r]
<1>1. pc[r] = "H5Dcreate" /\ pc[r] # "ended" /\ Met(r, "H5Dcreate")
  BY DEF CreateFails, Met
<1>2. /\ TypeOK /\ Protocol /\ OpensAlike /\ FileOK /\ PartsOK /\ ReceiptOK /\ HandlesOK
      /\ s \in Session /\ GateOf(s, "H5Dcreate")
  BY <1>1, InSession
<1>3. /\ UNCHANGED <<exists, block, attr, unclosed, session, modes, error, native, serial, crashes>>
      /\ receipt' \in {receipt, IF receipt = "none" THEN "unset" ELSE receipt}
      /\ Move(r, "left") /\ MayFail("create", TRUE)
  BY DEF CreateFails, within, Created
<1>4. CompleteIn(s, "H5Dcreate")
  BY <1>1, <1>2, MetMeans DEF Meeting
<1>5. /\ came' = came /\ outcome' = outcome
      /\ pc' \in [Rank -> {"ended"} \cup Place \cup Meeting]
      /\ pc'[r] = "left"
  BY <1>2, <1>3, MoveEffect DEF Move, Place
<1>6. TypeOK'
  <2>1. faults' \in 0 .. MaxFaults
    BY <1>2, <1>3, FaultsBounded
  <2> QED BY <2>1, <1>2, <1>3, <1>5 DEF TypeOK, RanksOK
<1>7. MayReach(r, "left") /\ "left" \in Place
  BY <1>1, <1>2 DEF MayReach, Nr, GateOf, Publishing, RootPlace, Place
<1>8. Local(r) /\ Protocol'
  BY <1>1, <1>2, <1>3, <1>5, <1>7, MoveKeepsProtocol DEF Move
<1>9. outcome[s][r] = "none" /\ session[0] = s /\ exists
  <2>1. session[0] = s
    BY <1>1, <1>2, Together, Constants DEF Inside
  <2> QED BY <2>1, <1>1, <1>2, <1>4 DEF FileOK, CompleteIn, Protocol, SessionsOK
<1>10. OpensAlike'
  <2>1. ~Missed(s, r)' /\ (OpenedIn(s, r)' => OpenedIn(s, r))
    BY <1>3, <1>5, <1>9 DEF Missed, OpenedIn, AtIn, Came
  <2> QED BY <2>1, <1>1, <1>2, <1>3, <1>5, <1>8, OpensKept
<1>11. FileOK'
  <2>1. pc'[0] = "checking" => pc[0] = "checking"
    BY <1>5, <1>8, Constants DEF Local
  <2> QED BY <2>1, <1>2, <1>3, <1>5, <1>9 DEF FileOK, Came
<1>12. PartsOK'
  BY <1>2, <1>3, <1>5, <1>8, PartsUntouched
<1>13. ReceiptOK'
  <2>1. CommittedIsWhole' /\ (receipt = "0" => receipt' = "0")
        /\ \A u \in Session : CommittedBy(u) => CommittedBy(u)'
    BY <1>2, <1>3 DEF CommittedIsWhole, CommittedBy, Whole, ReceiptOK
  <2>2. CASE r = 0
    BY <2>1, <2>2, <1>2, <1>3, <1>5 DEF ReceiptOK, Zeroed
  <2>3. CASE r # 0
    <3>1. pc'[0] = pc[0]
      BY <2>3, <1>8, Constants DEF Local
    <3> QED BY <2>1, <3>1, <1>2, <1>3, <1>5, <1>9 DEF ReceiptOK
  <2> QED BY <2>2, <2>3
<1>14. HandlesOK'
  BY <1>1, <1>2, <1>3, <1>5, <1>8, HandlesKept DEF Inside, Serial, Publishing
<1> QED BY <1>6, <1>8, <1>10, <1>11, <1>12, <1>13, <1>14 DEF IInv

\* The zero is written, or the write fails.
LEMMA WriteZeroKeeps ==
    ASSUME IInv, NEW r \in Rank, WriteZero(r)
    PROVE  IInv'
<1> DEFINE s == session[r]
<1>1. pc[r] = "zeros" /\ pc[r] # "ended" /\ Met(r, "zeros")
  BY DEF WriteZero, Met
<1>2. /\ TypeOK /\ Protocol /\ OpensAlike /\ FileOK /\ PartsOK /\ ReceiptOK /\ HandlesOK
      /\ s \in Session /\ GateOf(s, "zeros")
  BY <1>1, InSession
<1>3. UNCHANGED <<exists, block, attr, unclosed, session, modes, outcome, native, serial, crashes>>
  BY DEF WriteZero, within
<1>4. PICK f \in BOOLEAN :
        /\ MayFail("zeros", f)
        /\ receipt' = IF r = 0 /\ ~f THEN "0" ELSE receipt
        /\ error' = [error EXCEPT ![r] = f]
        /\ Come(r, "initialize_receipt", f)
  BY DEF WriteZero
<1>5. CompleteIn(s, "zeros")
  BY <1>1, <1>2, MetMeans DEF Meeting
<1>6. /\ came' \in [Session -> [Meeting -> [Rank -> {"no", "well", "failed"}]]]
      /\ pc' \in [Rank -> {"ended"} \cup Place \cup Meeting]
      /\ pc'[r] = "initialize_receipt"
      /\ came'[s]["initialize_receipt"][r] = IF f THEN "failed" ELSE "well"
      /\ \A m \in Meeting : m # "initialize_receipt" => came'[s][m][r] = came[s][m][r]
  <2>1. "initialize_receipt" \in Meeting
    BY DEF Meeting
  <2> QED BY <2>1, <1>2, <1>4, ComeOwn
<1>7. error' \in [Rank -> BOOLEAN] /\ error'[r] = f /\ \A q \in Rank : q # r => error'[q] = error[q]
  BY <1>2, <1>4 DEF TypeOK, RanksOK
<1>8. TypeOK'
  <2>1. faults' \in 0 .. MaxFaults
    BY <1>2, <1>4, FaultsBounded
  <2> QED BY <2>1, <1>2, <1>3, <1>4, <1>6, <1>7 DEF TypeOK, RanksOK
<1>9. /\ MayReach(r, "initialize_receipt") /\ Nr(pc[r]) < Nr("initialize_receipt")
      /\ "initialize_receipt" \in Meeting
  BY <1>1, <1>5 DEF MayReach, Nr, GateOf, Publishing, RootPlace, Meeting
<1>10. HandlesOK' /\ Local(r) /\ Protocol'
  <2>1. Local(r) /\ Protocol'
    BY <1>1, <1>2, <1>3, <1>4, <1>9, ComeKeepsProtocol
  <2> QED BY <2>1, <1>1, <1>2, <1>3, <1>6, HandlesKept DEF Inside, Serial, Publishing
<1>11. CASE f \/ r # 0
  <2>1. "initialize_receipt" \in Meeting \ {"H5Dcreate", "H5Dwrite"}
    BY DEF Meeting
  <2>2. OpensAlike' /\ FileOK' /\ PartsOK' /\ ReceiptOK'
    BY <2>1, <1>1, <1>3, <1>4, <1>7, <1>9, <1>11, QuietCome DEF disk
  <2> QED BY <2>2, <1>8, <1>10 DEF IInv
<1>12. CASE ~f /\ r = 0
  <2>1. receipt' = "0" /\ outcome[s][r] = "none"
    BY <1>1, <1>2, <1>4, <1>12 DEF Protocol, SessionsOK
  <2>2. /\ came[s]["metadata_commit"][0] = "no" /\ came[s]["data_close"][0] = "no"
        /\ came[s]["H5Dwrite"][0] = "no"
    <3> /\ Nr("zeros") < Nr("metadata_commit") /\ Nr("zeros") < Nr("data_close")
        /\ Nr("zeros") < Nr("H5Dwrite")
      BY DEF Nr
    <3> QED BY <1>12, <1>1, <1>2, NotYet DEF Meeting
  <2>3. OpensAlike'
    <3>1. ~Missed(s, r)' /\ (OpenedIn(s, r)' => OpenedIn(s, r))
      BY <2>1, <1>3, <1>6 DEF Missed, OpenedIn, AtIn, Came, Meeting
    <3> QED BY <3>1, <1>1, <1>2, <1>3, <1>6, <1>10, OpensKept
  <2>4. FileOK'
    <3>1. Came(s, "H5Dcreate", 0)
      BY <1>2, <1>12, Constants DEF GateOf, CompleteIn
    <3>2. exists
      BY <3>1, <1>2, <1>12 DEF FileOK
    <3> QED BY <3>2, <1>3 DEF FileOK
  <2>5. PartsOK'
    <3>1. PartFor(r)'
      BY <2>2, <1>3, <1>6, <1>7, <1>12 DEF PartFor
    <3>2. PartIn(s, r)'
      BY <2>2, <1>3, <1>6, <1>12 DEF PartIn, Meeting
    <3> QED BY <3>1, <3>2, <1>2, <1>3, <1>7, <1>10, PartsKept
  <2>6. ReceiptOK'
    BY <2>1, <2>2, <1>3, <1>6, <1>12 DEF ReceiptOK, CommittedIsWhole, Meeting
  <2> QED BY <2>3, <2>4, <2>5, <2>6, <1>8, <1>10 DEF IInv
<1> QED BY <1>11, <1>12

\* While a rank writes, the receipt is 0 and rank zero is in the same session with it.
LEMMA ReceiptIsZero ==
    ASSUME IInv, NEW r \in Rank, pc[r] \in {"writing", "H5Dwrite"}
    PROVE  /\ session[0] = session[r] /\ session[r] \in Session /\ modes[session[r]] # "r"
           /\ receipt = "0" \/ unclosed
           /\ exists /\ pc[0] \notin {"committing", "releasing"}
           /\ came[session[0]]["metadata_commit"][0] = "no"
           /\ \A q \in Rank : came[session[r]]["data_close"][q] = "no" \/ q # r
<1> DEFINE s == session[r]
<1>1. /\ TypeOK /\ Protocol /\ OpensAlike /\ FileOK /\ ReceiptOK /\ s \in Session
      /\ GateOf(s, pc[r]) /\ pc[r] # "ended"
  BY InSession
<1>2. session[0] = s /\ pc[0] \in {"H5Fopen", "data_close"} \cup Inside
  BY <1>1, Together, Constants DEF Inside
<1>3. WellIn(s, "initialize_receipt")
  BY <1>1 DEF GateOf
<1>4. modes[s] # "r"
  BY <1>1, OpenBehind DEF Inside
<1>5. CompleteIn(s, "H5Dcreate")
  <2>1. CompleteIn(s, "zeros")
    BY <1>1, <1>3, MeetingGate DEF GateOf, Meeting
  <2> QED BY <2>1, <1>1, MeetingGate DEF GateOf, Meeting
<1>6. exists
  BY <1>1, <1>2, <1>5, Constants DEF FileOK, CompleteIn
<1>7. pc[0] # "ended" /\ Nr(pc[0]) < Nr("metadata_commit")
  BY <1>2 DEF Inside, Nr
<1>8. came[s]["metadata_commit"][0] = "no"
  BY <1>1, <1>2, <1>7, NotYet, Constants DEF Meeting
<1>9. came[s]["initialize_receipt"][0] = "well"
  BY <1>3, Constants DEF WellIn
<1>10. 7 <= Nr(pc[0])
  <2>1. Nr("initialize_receipt") = 7
    BY DEF Nr
  <2>2. Nr("initialize_receipt") <= Nr(pc[0])
    BY <1>1, <1>2, <1>3, <1>7, PastIt, Constants DEF Meeting
  <2> QED BY <2>1, <2>2
<1>11. pc[0] \in Zeroed
  BY <1>2, <1>10 DEF Zeroed, Inside, Nr
<1>12. receipt = "0" \/ unclosed
  BY <1>1, <1>2, <1>9, <1>11 DEF ReceiptOK
<1>13. came[s]["data_close"][r] = "no"
  <2>1. Nr(pc[r]) < Nr("data_close")
    BY DEF Nr
  <2> QED BY <2>1, <1>1, NotYet DEF Meeting
<1> QED BY <1>1, <1>2, <1>4, <1>6, <1>8, <1>12, <1>13 DEF Inside

\* A rank hands its part over.
LEMMA BeginWriteKeeps ==
    ASSUME IInv, NEW r \in Rank, BeginWrite(r)
    PROVE  IInv'
<1> DEFINE s == session[r]
<1>1. pc[r] = "writing" /\ pc[r] # "ended"
  BY DEF BeginWrite
<1>2. /\ TypeOK /\ Protocol /\ OpensAlike /\ FileOK /\ PartsOK /\ ReceiptOK /\ HandlesOK
      /\ s \in Session /\ GateOf(s, "writing")
  BY <1>1, InSession
<1>3. /\ UNCHANGED <<exists, receipt, attr, unclosed, session, modes, outcome, error, native, serial, crashes, faults>>
      /\ block' = [block EXCEPT ![r] = Torn]
  BY DEF BeginWrite, within
<1>4. PICK f \in BOOLEAN : Come(r, "H5Dwrite", f)
  BY DEF BeginWrite
<1>5. /\ session[0] = s /\ modes[s] # "r" /\ exists
      /\ receipt = "0" \/ unclosed
      /\ pc[0] \notin {"committing", "releasing"}
      /\ came[s]["metadata_commit"][0] = "no" /\ came[s]["data_close"][r] = "no"
  BY <1>1, ReceiptIsZero
<1>6. /\ came' \in [Session -> [Meeting -> [Rank -> {"no", "well", "failed"}]]]
      /\ pc' \in [Rank -> {"ended"} \cup Place \cup Meeting]
      /\ pc'[r] = "H5Dwrite"
      /\ \A m \in Meeting : m # "H5Dwrite" => came'[s][m][r] = came[s][m][r]
  <2>1. "H5Dwrite" \in Meeting
    BY DEF Meeting
  <2> QED BY <2>1, <1>2, <1>4, ComeOwn
<1>7. block' \in [Rank -> Content] /\ \A q \in Rank : q # r => block'[q] = block[q]
  BY <1>2, <1>3 DEF TypeOK, Content
<1>8. TypeOK'
  BY <1>2, <1>3, <1>6, <1>7 DEF TypeOK, RanksOK
<1>9. MayReach(r, "H5Dwrite") /\ Nr(pc[r]) < Nr("H5Dwrite") /\ "H5Dwrite" \in Meeting
  BY <1>1, <1>2 DEF MayReach, Nr, GateOf, Publishing, RootPlace, Meeting
<1>10. Local(r) /\ Protocol'
  BY <1>1, <1>2, <1>3, <1>4, <1>9, ComeKeepsProtocol
<1>11. OpensAlike'
  BY <1>1, <1>2, <1>3, <1>5, <1>6, <1>10, OpensKept
<1>12. FileOK'
  BY <1>3, <1>5 DEF FileOK
<1>13. PartsOK'
  <2>1. PartFor(r)'
    BY <1>6 DEF PartFor
  <2>2. PartIn(s, r)'
    BY <1>3, <1>5, <1>6 DEF PartIn, Meeting
  <2> QED BY <2>1, <2>2, <1>2, <1>3, <1>5, <1>7, <1>10, PartsKept
<1>14. ReceiptOK'
  <2>1. pc'[0] \notin {"committing", "releasing"}
    BY <1>5, <1>6, <1>10, Constants DEF Local
  <2>2. came'[s]["metadata_commit"][0] = "no"
    BY <1>2, <1>5, <1>6, <1>10, Constants, ZenonT(60) DEF Local, Meeting
  <2> QED BY <2>1, <2>2, <1>3, <1>5 DEF ReceiptOK, CommittedIsWhole
<1>15. HandlesOK'
  BY <1>1, <1>2, <1>3, <1>6, <1>10, HandlesKept DEF Inside, Serial, Publishing
<1> QED BY <1>8, <1>10, <1>11, <1>12, <1>13, <1>14, <1>15 DEF IInv

\* The collective write returns; the rank's part has landed, or it has an error.
LEMMA EndWriteKeeps ==
    ASSUME IInv, NEW r \in Rank, EndWrite(r)
    PROVE  IInv'
<1> DEFINE s == session[r]
<1>1. pc[r] = "H5Dwrite" /\ pc[r] # "ended" /\ Met(r, "H5Dwrite")
  BY DEF EndWrite, Met
<1>2. /\ TypeOK /\ Protocol /\ OpensAlike /\ FileOK /\ PartsOK /\ ReceiptOK /\ HandlesOK
      /\ s \in Session /\ GateOf(s, "H5Dwrite")
  BY <1>1, InSession
<1>3. /\ UNCHANGED <<exists, receipt, attr, unclosed, session, modes, native, serial, crashes>>
      /\ Move(r, "closing")
  BY DEF EndWrite, within
<1>4. PICK fails \in BOOLEAN, lands \in BOOLEAN :
        /\ fails \/ lands
        /\ MayFail("write", fails)
        /\ block' = [block EXCEPT ![r] = IF lands THEN session[r] ELSE @]
        /\ error' = [error EXCEPT ![r] = fails]
  BY DEF EndWrite
<1>5. /\ session[0] = s /\ modes[s] # "r" /\ exists
      /\ receipt = "0" \/ unclosed
      /\ pc[0] \notin {"committing", "releasing"}
      /\ came[s]["metadata_commit"][0] = "no" /\ came[s]["data_close"][r] = "no"
  BY <1>1, ReceiptIsZero
<1>6. /\ came' = came /\ outcome' = outcome
      /\ pc' \in [Rank -> {"ended"} \cup Place \cup Meeting]
      /\ pc'[r] = "closing"
  BY <1>2, <1>3, MoveEffect DEF Move, Place
<1>7. /\ block' \in [Rank -> Content] /\ error' \in [Rank -> BOOLEAN]
      /\ ~error'[r] => block'[r] = s
      /\ \A q \in Rank : q # r => block'[q] = block[q] /\ error'[q] = error[q]
  BY <1>2, <1>4 DEF TypeOK, Content, RanksOK
<1>8. TypeOK'
  <2>1. faults' \in 0 .. MaxFaults
    BY <1>2, <1>4, FaultsBounded
  <2> QED BY <2>1, <1>2, <1>3, <1>6, <1>7 DEF TypeOK, RanksOK
<1>9. MayReach(r, "closing")
  <2>1. CompleteIn(s, "H5Dwrite") /\ CompleteIn(s, "initialize_receipt")
    BY <1>1, <1>2, MetMeans DEF Meeting, GateOf, WellIn, CompleteIn, Came
  <2> QED BY <2>1, <1>1, <1>5 DEF MayReach, Nr, GateOf, Publishing, RootPlace, Meeting
<1>10. Local(r) /\ Protocol'
  BY <1>1, <1>2, <1>3, <1>6, <1>9, MoveKeepsProtocol DEF Move, Place
<1>11. OpensAlike'
  BY <1>1, <1>2, <1>3, <1>5, <1>6, <1>10, OpensKept
<1>12. FileOK'
  BY <1>3, <1>5 DEF FileOK
<1>13. PartsOK'
  <2>1. came[s]["initialize_receipt"][r] = "well"
    BY <1>2 DEF GateOf, WellIn
  <2>2. PartFor(r)'
    BY <2>1, <1>3, <1>6, <1>7 DEF PartFor
  <2>3. PartIn(s, r)'
    BY <2>1, <1>3, <1>5, <1>6 DEF PartIn
  <2> QED BY <2>2, <2>3, <1>2, <1>3, <1>5, <1>7, <1>10, PartsKept
<1>14. ReceiptOK'
  <2>1. pc'[0] \notin {"committing", "releasing"}
    BY <1>5, <1>6, <1>10, Constants DEF Local
  <2> QED BY <2>1, <1>3, <1>5, <1>6 DEF ReceiptOK, CommittedIsWhole
<1>15. HandlesOK'
  BY <1>1, <1>2, <1>3, <1>6, <1>10, HandlesKept DEF Inside, Serial, Publishing
<1> QED BY <1>8, <1>10, <1>11, <1>12, <1>13, <1>14, <1>15 DEF IInv

\* Rank zero writes the metadata and the receipt.
LEMMA PublishKeeps ==
    ASSUME IInv, Stamp \/ Flush \/ Commit
    PROVE  IInv'
<1> DEFINE s == session[0]
<1>1. 0 \in Rank /\ pc[0] \in {"stamping", "flushing", "committing"} /\ pc[0] # "ended"
  BY Constants DEF Stamp, Flush, Commit
<1>2. /\ TypeOK /\ Protocol /\ OpensAlike /\ FileOK /\ PartsOK /\ ReceiptOK /\ HandlesOK
      /\ s \in Session /\ GateOf(s, pc[0])
  BY <1>1, InSession
<1>3. WellIn(s, "materialized")
  BY <1>1, <1>2 DEF GateOf, Publishing
<1>4. PICK label \in {"flushing", "committing", "releasing"} : Move(0, label) /\
        \/ pc[0] = "stamping" /\ label = "flushing" /\ receipt' = receipt /\ attr' = Torn
        \/ pc[0] = "flushing" /\ label = "committing" /\ receipt' = receipt /\ attr' = s
        \/ pc[0] = "committing" /\ label = "releasing" /\ receipt' = "1" /\ attr' = attr
  BY DEF Stamp, Flush, Commit
<1>5. UNCHANGED <<exists, block, unclosed, session, modes, error, native, serial, faults, crashes>>
  BY DEF Stamp, Flush, Commit, within
<1>6. /\ came' = came /\ outcome' = outcome
      /\ pc' \in [Rank -> {"ended"} \cup Place \cup Meeting]
      /\ pc'[0] = label
  BY <1>1, <1>2, <1>4, MoveEffect DEF Move, Place
<1>7. TypeOK'
  BY <1>2, <1>4, <1>5, <1>6 DEF TypeOK, RanksOK, Content
<1>8. MayReach(0, label)
  BY <1>1, <1>3, <1>4 DEF MayReach, Nr, GateOf, Publishing, RootPlace
<1>9. Local(0) /\ Protocol'
  BY <1>1, <1>2, <1>4, <1>5, <1>6, <1>8, MoveKeepsProtocol DEF Move, Place
<1>10. /\ WellIn(s, "initialize_receipt") /\ CompleteIn(s, "H5Dcreate")
       /\ (\A q \in Rank : block[q] = s) \/ unclosed
  BY <1>2, <1>3, PublishMeans
<1>11. (receipt = "0" \/ unclosed) /\ exists /\ modes[s] # "r"
  <2>1. pc[0] \in Zeroed
    BY <1>1 DEF Zeroed
  <2>2. GateOf(s, "H5Dcreate")
    BY <1>2, <1>10, MeetingGate DEF Meeting
  <2> QED BY <2>1, <2>2, <1>1, <1>2, <1>10 DEF ReceiptOK, FileOK, WellIn, CompleteIn, GateOf
<1>12. OpensAlike'
  BY <1>1, <1>2, <1>4, <1>5, <1>6, <1>9, <1>11, OpensKept
<1>13. FileOK'
  BY <1>5, <1>11 DEF FileOK
<1>14. PartsOK'
  BY <1>1, <1>2, <1>4, <1>5, <1>6, <1>9, PartsUntouched
<1>15. ReceiptOK'
  <2>1. came[s]["metadata_commit"][0] = "no"
    <3>1. Nr(pc[0]) < Nr("metadata_commit")
      BY <1>1 DEF Nr
    <3> QED BY <3>1, <1>1, <1>2, NotYet DEF Meeting
  <2>2. CASE label \in {"flushing", "committing"}
    BY <2>1, <2>2, <1>4, <1>5, <1>6, <1>11 DEF ReceiptOK, CommittedIsWhole, Zeroed
  <2>3. CASE label = "releasing"
    <3>1. attr = s
      BY <2>3, <1>2, <1>4 DEF ReceiptOK
    <3>2. CommittedBy(s)'
      BY <2>3, <3>1, <1>2, <1>4, <1>5, <1>10, Constants DEF CommittedBy, Whole
    <3> QED BY <2>1, <2>3, <3>2, <1>5, <1>6 DEF ReceiptOK, CommittedIsWhole, CommittedBy, Zeroed
  <2> QED BY <2>2, <2>3
<1>16. HandlesOK'
  BY <1>1, <1>2, <1>4, <1>5, <1>6, <1>9, HandlesKept DEF Inside, Serial, Publishing
<1> QED BY <1>7, <1>9, <1>12, <1>13, <1>14, <1>15, <1>16 DEF IInv

-----------------------------------------------------------------------------
(* Beginning a session, and being killed *)

\* Whatever the step, what was said in a meeting stays said, and gates stay open.
LEMMA Grows ==
    ASSUME TypeOK, modes' = modes,
           \A s \in Session, m \in Meeting, q \in Rank :
             Came(s, m, q) => came'[s][m][q] = came[s][m][q]
    PROVE  /\ \A s \in Session, m \in Meeting :
                /\ CompleteIn(s, m) => CompleteIn(s, m)'
                /\ WellIn(s, m) => WellIn(s, m)'
                /\ RefusedIn(s, m) => RefusedIn(s, m)'
           /\ \A s \in Session : \A x : GateOf(s, x) => GateOf(s, x)'
<1>1. \A s \in Session, m \in Meeting :
        /\ CompleteIn(s, m) => CompleteIn(s, m)'
        /\ WellIn(s, m) => WellIn(s, m)'
        /\ RefusedIn(s, m) => RefusedIn(s, m)'
  BY DEF Came, WellIn, RefusedIn, CompleteIn
<1>2. ASSUME NEW s \in Session, NEW x, GateOf(s, x)
      PROVE  GateOf(s, x)'
  BY <1>1, <1>2 DEF GateOf, Meeting, Publishing
<1> QED BY <1>1, <1>2

\* In a session rank zero has not begun nobody is past the open.
LEMMA NobodyAhead ==
    ASSUME TypeOK, Protocol, NEW s \in Session, s > session[0]
    PROVE  \A q \in Rank : /\ ~Came(s, "H5Dcreate", q)
                           /\ ~Came(s, "data_close", q)
<1>1. \A m \in Meeting : ~Came(s, m, 0)
  BY Constants DEF Protocol, SessionsOK
<1>2. ~CompleteIn(s, "H5Fopen") /\ ~CompleteIn(s, "H5Fclose")
  BY <1>1, Constants DEF CompleteIn, Meeting
<1> QED BY <1>2, MeetingGate DEF GateOf, Meeting

\* A rank begins its next session.
LEMMA StartKeeps ==
    ASSUME IInv, NEW r \in Rank, Start(r)
    PROVE  IInv'
<1>0. TypeOK /\ Protocol /\ OpensAlike /\ FileOK /\ PartsOK /\ ReceiptOK /\ HandlesOK
  BY DEF IInv
<1>1. /\ pc[r] = "ended" /\ session[r] < Sessions
      /\ session' = [session EXCEPT ![r] = @ + 1] /\ error' = [error EXCEPT ![r] = FALSE]
      /\ UNCHANGED <<exists, receipt, block, attr, unclosed, modes, native, serial, outcome, faults, crashes>>
  BY DEF Start, Begin, disk
<1>2. PICK n : n = session[r] + 1
  OBVIOUS
<1>3. n \in Session /\ n > session[r] /\ session'[r] = n /\ session' \in [Rank -> 0 .. Sessions]
      /\ session[r] \in 0 .. Sessions
      /\ \A s \in Session : s > session[r] <=> s >= n
  BY <1>0, <1>1, <1>2, MeetingsAssumption DEF TypeOK, RanksOK, Session
<1>4. \A q \in Rank : q # r => session'[q] = session[q] /\ error'[q] = error[q]
  BY <1>0, <1>1 DEF TypeOK, RanksOK
<1>5. PICK label \in {"preflight", "SlabIO.open"} :
        /\ label = "preflight" <=> r = 0
        /\ pc'[r] = label
        /\ pc' \in [Rank -> {"ended"} \cup Place \cup Meeting]
        /\ \A q \in Rank : q # r => pc'[q] = pc[q]
        /\ came' \in [Session -> [Meeting -> [Rank -> {"no", "well", "failed"}]]]
        /\ label = "SlabIO.open" => came'[n]["SlabIO.open"][r] = "well"
        /\ \A u \in Session, m \in Meeting, q \in Rank :
             u # n \/ m # "SlabIO.open" \/ q # r => came'[u][m][q] = came[u][m][q]
  <2>1. CASE r = 0
    <3>1. Goto(r, "preflight") /\ came' = came
      BY <2>1 DEF Start
    <3> QED BY <3>1, <2>1, <1>0, MoveEffect DEF Place, TypeOK, RanksOK
  <2>2. CASE r # 0
    <3>1. PICK f \in BOOLEAN : f = FALSE /\ ComeIn(n, r, "SlabIO.open", f)
      BY <2>2, <1>2 DEF Start
    <3> QED BY <3>1, <2>2, <1>0, <1>3, ComeEffect, ZenonT(60) DEF Meeting
  <2> QED BY <2>1, <2>2
<1>6. \A m \in Meeting : came[n][m][r] = "no"
  BY <1>0, <1>3 DEF Protocol, SessionsOK, Came
<1>7. /\ \A u \in Session, m \in Meeting, q \in Rank : Came(u, m, q) => came'[u][m][q] = came[u][m][q]
      /\ \A u \in Session, m \in Meeting, q \in Rank :
           m # "SlabIO.open" => (Came(u, m, q)' <=> Came(u, m, q))
  BY <1>5, <1>6 DEF Came
<1>8. /\ \A u \in Session, m \in Meeting :
                /\ CompleteIn(u, m) => CompleteIn(u, m)'
                /\ WellIn(u, m) => WellIn(u, m)'
                /\ RefusedIn(u, m) => RefusedIn(u, m)'
      /\ \A u \in Session : \A x : GateOf(u, x) => GateOf(u, x)'
  BY <1>0, <1>1, <1>7, Grows
<1>9. TypeOK'
  <2> error' \in [Rank -> BOOLEAN]
    BY <1>0, <1>1 DEF TypeOK, RanksOK
  <2> QED BY <1>0, <1>1, <1>3, <1>5 DEF TypeOK, RanksOK
<1>10. SessionsOK'
  <2>1. ASSUME NEW q \in Rank, NEW s \in Session, s > session'[q]
        PROVE  outcome[s][q] = "none" /\ \A m \in Meeting : ~Came(s, m, q)'
    <3>1. s > session[q] /\ (q = r => s # n)
      BY <2>1, <1>3, <1>4, MeetingsAssumption DEF Session
    <3>2. outcome[s][q] = "none" /\ \A m \in Meeting : ~Came(s, m, q)
      BY <3>1, <1>0 DEF Protocol, SessionsOK
    <3> QED BY <3>1, <3>2, <1>5 DEF Came
  <2>2. ASSUME NEW q \in Rank, pc'[q] # "ended"
        PROVE  session'[q] \in Session /\ outcome[session'[q]][q] = "none"
    BY <2>2, <1>0, <1>3, <1>4, <1>5 DEF Protocol, SessionsOK
  <2> QED BY <2>1, <2>2, <1>1 DEF SessionsOK
<1>11. Ahead'
  <2> SUFFICES ASSUME NEW q \in Rank, NEW p \in Rank, NEW s \in Session,
                      s > session'[q] \/ (s = session'[q] /\ pc'[q] # "ended"),
                      s < session'[p] \/ (s = session'[p] /\ pc'[p] = "ended")
               PROVE  outcome[s][p] # "none"
    BY <1>1 DEF Ahead
  <2>1. s > session[q] \/ (s = session[q] /\ pc[q] # "ended")
    BY <1>3, <1>4, <1>5, MeetingsAssumption DEF Session
  <2>2. s < session[p] \/ (s = session[p] /\ pc[p] = "ended")
    BY <1>1, <1>3, <1>4, <1>5, MeetingsAssumption DEF Session
  <2> QED BY <2>1, <2>2, <1>0 DEF Protocol, Ahead
<1>12. LabelsOK'
  <2> SUFFICES ASSUME NEW q \in Rank
               PROVE  LabelsFor(q)'
    BY DEF LabelsOK
  <2>1. CASE q = r
    <3>1. \A m \in Meeting : Came(n, m, r)' => m = "SlabIO.open" /\ label = "SlabIO.open"
      <4>1. CASE label = "preflight"
        <5>1. came' = came
          BY <4>1, <1>5 DEF Start
        <5> QED BY <5>1, <1>6 DEF Came
      <4>2. CASE label = "SlabIO.open"
        BY <4>2, <1>3, <1>5, <1>6 DEF Came
      <4> QED BY <4>1, <4>2
    <3>2. Nr("SlabIO.open") <= Nr("SlabIO.open") /\ label \in Meeting \cup RootPlace
          /\ (label \in Meeting => label = "SlabIO.open") /\ (label \in RootPlace => label = "preflight")
      BY NrIsNat DEF Meeting, RootPlace, Publishing
    <3> QED BY <2>1, <3>1, <3>2, <1>3, <1>5 DEF LabelsFor, Came
  <2>2. CASE q # r
    <3>1. session'[q] = session[q] /\ pc'[q] = pc[q] /\ LabelsFor(q)
      BY <2>2, <1>0, <1>4, <1>5 DEF Protocol, LabelsOK
    <3>2. "ended" \notin Meeting \cup RootPlace
      BY DEF Meeting, RootPlace, Publishing
    <3>3. pc[q] # "ended" => session[q] \in Session
      BY <1>0 DEF Protocol, SessionsOK
    <3>4. \A w \in Session, m \in Meeting : came'[w][m][q] = came[w][m][q]
      BY <2>2, <1>5
    <3>5. CASE pc[q] = "ended"
      BY <3>1, <3>2, <3>5 DEF LabelsFor
    <3>6. CASE pc[q] # "ended"
      <4>1. \A m \in Meeting : came'[session[q]][m][q] = came[session[q]][m][q]
        BY <3>3, <3>4, <3>6
      <4> QED BY <4>1, <3>1, <3>6 DEF LabelsFor, Came
    <3> QED BY <3>5, <3>6
  <2> QED BY <2>1, <2>2
<1>13. GatesOK'
  <2>0. GateOf(n, "SlabIO.open")' /\ GateOf(n, "preflight")'
    BY DEF GateOf, Publishing
  <2>1. ASSUME NEW u \in Session, NEW q \in Rank, NEW m \in Meeting, Came(u, m, q)'
        PROVE  GateOf(u, m)'
    <3>1. CASE Came(u, m, q)
      BY <3>1, <1>0, <1>8 DEF Protocol, GatesOK
    <3>2. CASE ~Came(u, m, q)
      <4>1. u = n /\ m = "SlabIO.open"
        BY <3>2, <2>1, <1>5 DEF Came
      <4> QED BY <4>1 DEF GateOf, Publishing
    <3> QED BY <3>1, <3>2
  <2>2. ASSUME NEW u \in Session, NEW q \in Rank, session'[q] = u, pc'[q] # "ended"
        PROVE  GateOf(u, pc[q])'
    <3>0. PICK x : x = pc'[q]
      OBVIOUS
    <3>1. GateOf(u, x)'
      <4>1. CASE q = r
        <5>1. x \in {"preflight", "SlabIO.open"}
          BY <4>1, <3>0, <1>5
        <5> QED BY <5>1 DEF GateOf, Publishing
      <4>2. CASE q # r
        BY <4>2, <3>0, <2>2, <1>0, <1>4, <1>5, <1>8 DEF Protocol, GatesOK
      <4> QED BY <4>1, <4>2
    <3> QED BY <3>0, <3>1 DEF GateOf
  <2> QED BY <2>1, <2>2 DEF GatesOK
<1>14. OutcomesOK'
  <2> SUFFICES ASSUME NEW u \in Session, NEW q \in Rank
               PROVE  /\ outcome[u][q] = "ok" =>
                           IF modes[u] = "r" THEN WellIn(u, "data_close")' ELSE WellIn(u, "metadata_commit")'
                      /\ outcome[u][q] = "raised" =>
                           \/ \E m \in {"SlabIO.open", "data_close", "materialized", "metadata_commit"} :
                                  RefusedIn(u, m)'
                           \/ NotUnlinked(u, q)'
                           \/ Missed(u, q)' /\ CompleteIn(u, "H5Fopen")'
    BY <1>1 DEF OutcomesOK
  <2>1. CASE outcome[u][q] = "ok"
    BY <2>1, <1>0, <1>8 DEF Protocol, OutcomesOK, Meeting
  <2>2. CASE outcome[u][q] = "raised"
    <3>2. CASE \E m \in {"SlabIO.open", "data_close", "materialized", "metadata_commit"} : RefusedIn(u, m)
      BY <3>2, <2>2, <1>8 DEF Meeting
    <3>3. CASE NotUnlinked(u, q)
      <4>1. WellIn(u, "SlabIO.open")' /\ ~Came(u, "replace_inode", 0)'
        BY <3>3, <1>7, <1>8, Constants DEF NotUnlinked, Meeting
      <4>2. NotUnlinked(u, q)'
        BY <4>1, <3>3, <1>1 DEF NotUnlinked
      <4> QED BY <4>2, <2>2
    <3>4. CASE Missed(u, q) /\ CompleteIn(u, "H5Fopen")
      <4>1. WellIn(u, "SlabIO.open")'
        <5>1. GateOf(u, "H5Fopen")
          BY <3>4, <1>0, MeetingGate DEF Meeting
        <5> QED BY <5>1, <1>8 DEF GateOf, Meeting
      <4>2. CompleteIn(u, "H5Fopen")' /\ ~Came(u, "H5Fclose", q)'
        BY <3>4, <1>7, <1>8 DEF Meeting, Missed
      <4>3. Missed(u, q)'
        BY <4>1, <4>2, <3>4, <1>1 DEF Missed, WellIn, RefusedIn
      <4> QED BY <4>2, <4>3, <2>2
    <3> QED BY <2>2, <3>2, <3>3, <3>4, <1>0 DEF Protocol, OutcomesOK
  <2> QED BY <2>1, <2>2, <1>0 DEF TypeOK, RanksOK
<1>15. OpensAlike'
  <2>1. ASSUME NEW s \in Session, NEW q \in Rank
        PROVE  (Missed(s, q)' => Missed(s, q)) /\ (OpenedIn(s, q)' => OpenedIn(s, q))
    <3>1. Came(s, "H5Fclose", q)' <=> Came(s, "H5Fclose", q)
      BY <1>7 DEF Meeting
    <3>2. RefusedIn(s, "SlabIO.open") => RefusedIn(s, "SlabIO.open")'
      BY <1>8 DEF Meeting
    <3>3. AtIn(q, s, {"closing"})' => AtIn(q, s, {"closing"})
      BY <1>4, <1>5 DEF AtIn
    <3> QED BY <3>1, <3>2, <3>3, <1>1 DEF Missed, OpenedIn
  <2>2. ASSUME NEW s \in Session, NEW q \in Rank, AtIn(q, s, {"H5Fopen"})'
        PROVE  AtIn(q, s, {"H5Fopen"})
    BY <2>2, <1>4, <1>5 DEF AtIn
  <2> QED BY <2>1, <2>2, <1>0, <1>1 DEF OpensAlike
<1>16. \A s \in Session, q \in Rank : session'[0] = s /\ session[0] # s =>
         ~Came(s, "H5Dcreate", q)' /\ ~Came(s, "data_close", q)'
         /\ came'[s]["metadata_commit"][0] # "well"
  <2> SUFFICES ASSUME NEW s \in Session, NEW q \in Rank, session'[0] = s, session[0] # s
               PROVE  ~Came(s, "H5Dcreate", q)' /\ ~Came(s, "data_close", q)'
                      /\ came'[s]["metadata_commit"][0] # "well"
    OBVIOUS
  <2>1. r = 0 /\ s = n
    BY <1>3, <1>4, Constants
  <2>2. ~Came(s, "H5Dcreate", q) /\ ~Came(s, "data_close", q)
    BY <2>1, <1>0, <1>3, NobodyAhead
  <2>3. came'[s]["metadata_commit"][0] = came[s]["metadata_commit"][0]
    BY <1>5, Constants DEF Meeting
  <2> QED BY <2>1, <2>2, <2>3, <1>6, <1>7 DEF Meeting
<1>17. FileOK'
  <2>1. pc'[0] # "checking" \/ pc[0] = "checking"
    BY <1>5, Constants
  <2>2. \A s \in Session, q \in Rank : session'[0] = s /\ Came(s, "H5Dcreate", q)' => exists
    BY <1>0, <1>7, <1>16 DEF FileOK, Meeting
  <2> QED BY <2>1, <2>2, <1>0, <1>1 DEF FileOK
<1>18. PartsOK'
  <2>1. ASSUME NEW q \in Rank
        PROVE  PartFor(q)'
    <3>1. CASE q = r
      BY <3>1, <1>5 DEF PartFor
    <3>2. CASE q # r
      <4>1. /\ pc'[q] = pc[q] /\ error'[q] = error[q] /\ session'[q] = session[q] /\ PartFor(q)
            /\ pc[q] # "ended" => session[q] \in Session
        BY <3>2, <1>0, <1>4, <1>5 DEF PartsOK, Protocol, SessionsOK
      <4>2. \A u \in Session, m \in Meeting : came'[u][m][q] = came[u][m][q]
        BY <3>2, <1>5
      <4> QED BY <4>1, <4>2, <1>1 DEF PartFor, Came, Meeting
    <3> QED BY <3>1, <3>2
  <2>2. ASSUME NEW q \in Rank, NEW u \in Session
        PROVE  PartIn(u, q)'
    <3>1. PartIn(u, q)
      BY <1>0 DEF PartsOK
    <3>2. /\ came'[u]["data_close"][q] = came[u]["data_close"][q]
          /\ came'[u]["initialize_receipt"][q] = came[u]["initialize_receipt"][q]
          /\ Came(u, "H5Dwrite", q)' <=> Came(u, "H5Dwrite", q)
      BY <1>5, <1>7 DEF Meeting
    <3>3. session'[0] = u => session[0] = u \/ came'[u]["data_close"][q] = "no"
      BY <1>16 DEF Came
    <3> QED BY <3>1, <3>2, <3>3, <1>1 DEF PartIn
  <2> QED BY <2>1, <2>2 DEF PartsOK
<1>19. ReceiptOK'
  <2>1. CommittedIsWhole' /\ \A u \in Session : CommittedBy(u) <=> CommittedBy(u)'
    BY <1>0, <1>1 DEF CommittedIsWhole, CommittedBy, Whole, ReceiptOK
  <2>2. CASE r = 0
    <3>1. pc'[0] \notin Zeroed \cup {"releasing"}
      BY <2>2, <1>5 DEF Zeroed
    <3>2. \A s \in Session : session'[0] = s => came'[s]["metadata_commit"][0] # "well"
      BY <2>2, <1>3, <1>16, Constants
    <3> QED BY <2>1, <3>1, <3>2 DEF ReceiptOK, Zeroed
  <2>3. CASE r # 0
    <3>1. /\ pc'[0] = pc[0] /\ session'[0] = session[0]
          /\ \A u \in Session, m \in Meeting : came'[u][m][0] = came[u][m][0]
          /\ pc[0] # "ended" => session[0] \in Session
      BY <2>3, <1>0, <1>4, <1>5, Constants DEF Protocol, SessionsOK
    <3>2. pc[0] \in Zeroed \cup {"committing", "releasing"} => pc[0] # "ended"
      BY DEF Zeroed
    <3> QED BY <2>1, <3>1, <3>2, <1>0, <1>1 DEF ReceiptOK, Meeting
  <2> QED BY <2>2, <2>3
<1>20. HandlesOK'
  <2>1. \A q \in native : pc'[q] \in Inside
    BY <1>0, <1>1, <1>5 DEF HandlesOK, TypeOK, Inside
  <2>2. pc[0] \in Serial <=> pc'[0] \in Serial
    BY <1>1, <1>5, Constants DEF Serial, Publishing
  <2> QED BY <2>1, <2>2, <1>0, <1>1 DEF HandlesOK
<1> QED BY <1>9, <1>10, <1>11, <1>12, <1>13, <1>14, <1>15, <1>17, <1>18, <1>19, <1>20 DEF IInv, Protocol

\* The job is killed.
LEMMA CrashKeeps ==
    ASSUME IInv, Crash
    PROVE  IInv'
<1>0. TypeOK /\ Protocol /\ OpensAlike /\ FileOK /\ PartsOK /\ ReceiptOK /\ HandlesOK
  BY DEF IInv
<1>1. PICK n \in Session : (\A r \in Rank : session[r] <= n) /\ session' = [r \in Rank |-> n]
  BY DEF Crash, Kill
<1>2. /\ UNCHANGED <<exists, receipt, block, attr, unclosed, modes, error, came, outcome, faults>>
      /\ native' = {} /\ serial' = 0 /\ pc' = [r \in Rank |-> "ended"]
  BY DEF Crash, Kill, disk
<1>3. \A q \in Rank : pc'[q] = "ended" /\ session'[q] = n /\ session[q] <= n
  BY <1>1, <1>2
<1>4. \A s \in Session, m \in Meeting, q \in Rank : Came(s, m, q)' <=> Came(s, m, q)
  BY <1>2 DEF Came
<1>5. /\ \A u \in Session, m \in Meeting :
                /\ CompleteIn(u, m) <=> CompleteIn(u, m)'
                /\ WellIn(u, m) <=> WellIn(u, m)'
                /\ RefusedIn(u, m) <=> RefusedIn(u, m)'
      /\ \A u \in Session : \A x : GateOf(u, x) <=> GateOf(u, x)'
  <2>1. \A u, m : /\ CompleteIn(u, m) <=> CompleteIn(u, m)'
                  /\ WellIn(u, m) <=> WellIn(u, m)'
                  /\ RefusedIn(u, m) <=> RefusedIn(u, m)'
    BY <1>2 DEF CompleteIn, WellIn, RefusedIn, Came
  <2> QED BY <2>1, <1>2 DEF GateOf
<1>6. TypeOK'
  <2>1. session' \in [Rank -> 0 .. Sessions]
    BY <1>1, MeetingsAssumption DEF Session
  <2>2. crashes' \in 0 .. MaxCrashes
    BY <1>0, MeetingsAssumption DEF Crash, Kill, TypeOK, RanksOK
  <2> QED BY <2>1, <2>2, <1>0, <1>2 DEF TypeOK, RanksOK
<1>7. Protocol'
  <2>1. SessionsOK'
    <3>1. \A q \in Rank, s \in Session : s > n => s > session[q]
      BY <1>0, <1>3, MeetingsAssumption DEF TypeOK, RanksOK, Session
    <3> QED BY <3>1, <1>0, <1>2, <1>3, <1>4 DEF Protocol, SessionsOK
  <2>2. Ahead'
    BY <1>3, MeetingsAssumption DEF Ahead, Session
  <2>3. LabelsOK'
    BY <1>3 DEF LabelsOK, LabelsFor, Meeting, RootPlace, Publishing
  <2>4. GatesOK'
    BY <1>0, <1>3, <1>4, <1>5 DEF Protocol, GatesOK
  <2>5. OutcomesOK'
    BY <1>0, <1>2 DEF Protocol, OutcomesOK, WellIn, RefusedIn, CompleteIn, Came, NotUnlinked, Missed
  <2> QED BY <2>1, <2>2, <2>3, <2>4, <2>5 DEF Protocol
<1>8. OpensAlike'
  <2>1. \A s \in Session, q \in Rank :
          (OpenedIn(s, q)' => OpenedIn(s, q)) /\ (Missed(s, q)' => Missed(s, q))
    BY <1>2, <1>3 DEF OpenedIn, AtIn, Missed, RefusedIn, CompleteIn, Came
  <2>2. \A s \in Session, q \in Rank : ~AtIn(q, s, {"H5Fopen"})'
    BY <1>3 DEF AtIn
  <2> QED BY <2>1, <2>2, <1>0, <1>2 DEF OpensAlike
<1>9. \A s \in Session, q \in Rank : session'[0] = s =>
        \/ session[0] = s
        \/ ~Came(s, "H5Dcreate", q) /\ ~Came(s, "data_close", q)
           /\ came[s]["metadata_commit"][0] # "well"
  <2> SUFFICES ASSUME session[0] # n
               PROVE  \A q \in Rank : /\ ~Came(n, "H5Dcreate", q) /\ ~Came(n, "data_close", q)
                                      /\ came[n]["metadata_commit"][0] # "well"
    BY <1>3, Constants
  <2>1. n > session[0]
    BY <1>0, <1>3, Constants, MeetingsAssumption DEF TypeOK, RanksOK, Session
  <2> QED BY <2>1, <1>0, NobodyAhead, Constants DEF Protocol, SessionsOK, Came, Meeting
<1>10. FileOK'
  BY <1>0, <1>2, <1>3, <1>4, <1>9, Constants DEF FileOK, Meeting
<1>11. PartsOK'
  <2>1. \A q \in Rank : PartFor(q)'
    BY <1>3 DEF PartFor
  <2>2. ASSUME NEW q \in Rank, NEW u \in Session
        PROVE  PartIn(u, q)'
    <3>1. PartIn(u, q)
      BY <1>0 DEF PartsOK
    <3> QED BY <3>1, <1>2, <1>9 DEF PartIn, Came
  <2> QED BY <2>1, <2>2 DEF PartsOK
<1>12. ReceiptOK'
  <2>1. pc'[0] \notin Zeroed \cup {"releasing"}
    BY <1>3, Constants DEF Zeroed
  <2>2. CommittedIsWhole' /\ \A u \in Session : CommittedBy(u) <=> CommittedBy(u)'
    BY <1>0, <1>2 DEF CommittedIsWhole, CommittedBy, Whole, ReceiptOK
  <2>3. \A s \in Session : session'[0] = s /\ came[s]["metadata_commit"][0] = "well" => CommittedBy(s)
    BY <1>0, <1>9, Constants DEF ReceiptOK
  <2> QED BY <2>1, <2>2, <2>3, <1>2 DEF ReceiptOK, Zeroed
<1>13. HandlesOK'
  BY <1>2, <1>3, Constants DEF HandlesOK, Serial, Publishing
<1> QED BY <1>6, <1>7, <1>8, <1>10, <1>11, <1>12, <1>13 DEF IInv

-----------------------------------------------------------------------------
(* The theorems *)

\* It holds when nothing has happened yet.
LEMMA InitIInv == Init => IInv
<1> SUFFICES ASSUME Init
             PROVE  IInv
  OBVIOUS
<1>1. /\ \A r \in Rank : pc[r] = "ended" /\ session[r] = 0 /\ error[r] = FALSE
      /\ \A s \in Session, r \in Rank : outcome[s][r] = "none"
      /\ \A s \in Session, m \in Meeting, r \in Rank : came[s][m][r] = "no"
      /\ native = {} /\ serial = 0 /\ 0 \in Rank
  BY Constants DEF Init, RanksInit
<1>2. TypeOK
  <2>1. RanksOK(Place, Meeting)
    BY MeetingsAssumption DEF Init, RanksInit, RanksOK
  <2>2. exists \in BOOLEAN /\ receipt \in {"none", "unset", "0", "1"}
    BY DEF Init
  <2>3. block \in [Rank -> Content] /\ attr \in Content
    BY DEF Init, Content
  <2>4. native \subseteq Rank /\ serial \in 0 .. 1
    BY <1>1
  <2>5. modes \in [Session -> Mode] /\ unclosed \in BOOLEAN
    BY DEF Init
  <2> QED BY <2>1, <2>2, <2>3, <2>4, <2>5 DEF TypeOK
<1>3. SessionsOK /\ LabelsOK /\ GatesOK /\ OutcomesOK
  BY <1>1 DEF SessionsOK, LabelsOK, LabelsFor, GatesOK, OutcomesOK, Came, Meeting, RootPlace, Publishing
<1>4. Ahead
  BY <1>1, MeetingsAssumption DEF Ahead, Session
<1>5. OpensAlike
  BY <1>1 DEF OpensAlike, OpenedIn, Missed, AtIn, Came, Meeting
<1>6. FileOK
  BY <1>1 DEF FileOK, Init, Came, Meeting
<1>7. PartsOK
  BY <1>1 DEF PartsOK, PartFor, PartIn, Came, Meeting
<1>8. ReceiptOK
  BY <1>1 DEF ReceiptOK, Zeroed, Init, CommittedIsWhole, Whole, Torn, Before, Meeting
<1>9. HandlesOK
  BY <1>1 DEF HandlesOK, Serial, Publishing
<1> QED BY <1>2, <1>3, <1>4, <1>5, <1>6, <1>7, <1>8, <1>9 DEF IInv, Protocol

\* Every step keeps it.
LEMMA NextKeeps == IInv /\ [Next]_vars => IInv'
<1> SUFFICES ASSUME IInv, [Next]_vars
             PROVE  IInv'
  OBVIOUS
<1>1. CASE RootStep
  BY <1>1, PreflightKeeps, CheckReceiptKeeps, UnlinkFailsKeeps, ReplaceInodeKeeps, ReopenKeeps,
     PublishKeeps, ReleaseKeeps DEF RootStep
<1>2. ASSUME NEW r \in Rank, RankStep(r)
      PROVE  IInv'
  BY <1>2, StartKeeps, OpenedKeeps, ReplacedKeeps, OpenToWriteKeeps, OpenToReadKeeps,
     CreateReceiptKeeps, CreateFailsKeeps, WriteZeroKeeps, InitializedKeeps, BeginWriteKeeps,
     EndWriteKeeps, CloseKeeps, CloseFileKeeps, NativeCloseFailsKeeps, ClosedKeeps, MaterializeKeeps, MaterializedKeeps, CommittedKeeps
     DEF RankStep
<1>3. CASE Crash
  BY <1>3, CrashKeeps
<1>4. CASE UNCHANGED vars
  <2> USE <1>4 DEF vars, disk, ranks
  <2>1. TypeOK'
    BY DEF IInv, TypeOK, RanksOK
  <2>2. \A s, m, r : Came(s, m, r)' <=> Came(s, m, r)
    BY DEF Came
  <2>3. \A s, m : /\ CompleteIn(s, m)' <=> CompleteIn(s, m)
                  /\ WellIn(s, m)' <=> WellIn(s, m)
                  /\ RefusedIn(s, m)' <=> RefusedIn(s, m)
    BY DEF CompleteIn, WellIn, RefusedIn, Came
  <2>4. \A s, x : GateOf(s, x)' <=> GateOf(s, x)
    BY <2>3 DEF GateOf
  <2>5. SessionsOK' /\ Ahead'
    BY DEF IInv, Protocol, SessionsOK, Ahead, Came
  <2>6. LabelsOK'
    BY DEF IInv, Protocol, LabelsOK, LabelsFor, Came
  <2>7. GatesOK'
    BY <2>2, <2>4 DEF IInv, Protocol, GatesOK
  <2>8. OutcomesOK' /\ OpensAlike'
    BY DEF IInv, Protocol, OutcomesOK, OpensAlike, OpenedIn, AtIn, NotUnlinked, Missed, WellIn,
           RefusedIn, CompleteIn, Came
  <2>9. FileOK' /\ PartsOK'
    BY DEF IInv, FileOK, PartsOK, PartFor, PartIn, Came
  <2>10. ReceiptOK' /\ HandlesOK'
    BY DEF IInv, ReceiptOK, HandlesOK, CommittedBy, CommittedIsWhole, Whole
  <2> QED BY <2>1, <2>5, <2>6, <2>7, <2>8, <2>9, <2>10 DEF IInv, Protocol
<1> QED BY <1>1, <1>2, <1>3, <1>4 DEF Next

\* The inductive invariant of the commit protocol: in every session each rank knows what
\* lies behind the label it is at, and the file is what the last of those steps made it.
THEOREM Inductive == Spec => []IInv
<1>1. Init => IInv
  BY InitIInv
<1>2. IInv /\ [Next]_vars => IInv'
  BY NextKeeps
<1> QED BY <1>1, <1>2, PTL DEF Spec

\* A file whose receipt is not 0 holds the whole of one session, data and metadata,
\* wherever a rank fails or the job is killed (commit_state.assert_committed accepts it),
\* if none of its native closes has failed.
THEOREM WhatIsAcceptedIsWhole == Spec => []CommittedIsWhole
<1>1. IInv => CommittedIsWhole
  BY DEF IInv, ReceiptOK
<1> QED BY <1>1, Inductive, PTL

\* Who came to the agreement on the closed data came to all there was before it.
LEMMA AllCameBefore ==
    ASSUME TypeOK, Protocol, NEW s \in Session, CompleteIn(s, "data_close"),
           NEW m \in Meeting \ {"materialized", "metadata_commit"},
           \E q \in Rank : Came(s, m, q)
    PROVE  CompleteIn(s, m)
<1>1. \A k \in Meeting : CompleteIn(s, k) \/ WellIn(s, k) \/ RefusedIn(s, k) => GateOf(s, k)
  BY MeetingGate
<1>2. GateOf(s, m)
  BY MeetingGate
<1>3. \A k : WellIn(s, k) \/ RefusedIn(s, k) => CompleteIn(s, k)
  BY DEF WellIn, RefusedIn, CompleteIn, Came
<1>4. CompleteIn(s, "H5Fclose")
  BY <1>1 DEF GateOf, Meeting
<1>5. CompleteIn(s, "H5Fopen") /\ CompleteIn(s, "SlabIO.open")
      /\ (modes[s] = "w" => CompleteIn(s, "replace_inode"))
  <2> GateOf(s, "data_close")
    BY <1>1 DEF Meeting
  <2> QED BY <1>3, OpenBehind
<1>6. CASE m \in {"SlabIO.open", "H5Fopen", "H5Fclose", "data_close"}
  BY <1>4, <1>5, <1>6
<1>7. CASE m = "replace_inode"
  BY <1>2, <1>5, <1>7 DEF GateOf
<1>8. CASE m \in {"H5Dcreate", "zeros", "initialize_receipt", "H5Dwrite"}
  <2>1. modes[s] # "r"
    BY <1>2, <1>8, OpenBehind DEF Inside
  <2>2. /\ CompleteIn(s, "initialize_receipt")
        /\ RefusedIn(s, "initialize_receipt") \/ CompleteIn(s, "H5Dwrite")
    BY <1>1, <1>4, <2>1 DEF GateOf, Meeting
  <2>3. CompleteIn(s, "zeros")
    BY <1>1, <2>2 DEF GateOf, Meeting
  <2>4. CompleteIn(s, "H5Dcreate")
    BY <1>1, <2>3 DEF GateOf, Meeting
  <2>5. m = "H5Dwrite" => ~RefusedIn(s, "initialize_receipt")
    BY <1>2 DEF GateOf, WellIn, RefusedIn
  <2> QED BY <1>8, <2>2, <2>3, <2>4, <2>5
<1> QED BY <1>6, <1>7, <1>8 DEF Meeting

\* Behind a session that any rank ended without an error lie only meetings that went well.
LEMMA EndedWell ==
    ASSUME TypeOK, Protocol, NEW s \in Session, NEW r \in Rank, outcome[s][r] = "ok"
    PROVE  /\ WellIn(s, "data_close") /\ WellIn(s, "SlabIO.open")
           /\ modes[s] = "w" => CompleteIn(s, "replace_inode")
           /\ modes[s] # "r" => WellIn(s, "materialized") /\ WellIn(s, "metadata_commit")
           /\ CompleteIn(s, "H5Fclose")
<1>1. \A k \in Meeting : WellIn(s, k) => GateOf(s, k)
  BY MeetingGate
<1>2. modes[s] # "r" => WellIn(s, "materialized") /\ WellIn(s, "metadata_commit")
  <2> modes[s] # "r" => WellIn(s, "metadata_commit")
    BY DEF Protocol, OutcomesOK
  <2> QED BY <1>1 DEF GateOf, Meeting
<1>3. WellIn(s, "data_close")
  BY <1>1, <1>2 DEF Protocol, OutcomesOK, GateOf, Meeting
<1>4. GateOf(s, "data_close")
  BY <1>1, <1>3 DEF Meeting
<1> QED BY <1>2, <1>3, <1>4, OpenBehind DEF GateOf

\* A session does not end well for one rank and badly for another.
LEMMA AlikeFollows == IInv => EndsAlike
<1> SUFFICES ASSUME IInv, NEW s \in Session, NEW r \in Rank, NEW q \in Rank,
                    outcome[s][r] = "ok", outcome[s][q] = "raised" \/ Left(s, q)
             PROVE  FALSE
  BY DEF EndsAlike
<1>1. TypeOK /\ Protocol
  BY DEF IInv
<1>2. /\ WellIn(s, "data_close") /\ WellIn(s, "SlabIO.open") /\ CompleteIn(s, "H5Fclose")
      /\ modes[s] = "w" => CompleteIn(s, "replace_inode")
      /\ modes[s] # "r" => WellIn(s, "materialized") /\ WellIn(s, "metadata_commit")
  BY <1>1, EndedWell
<1>3. modes[s] = "r" => ~RefusedIn(s, "materialized") /\ ~RefusedIn(s, "metadata_commit")
  <2>1. RefusedIn(s, "metadata_commit") => GateOf(s, "metadata_commit")
    BY <1>1, MeetingGate DEF Meeting
  <2>2. RefusedIn(s, "materialized") \/ WellIn(s, "materialized") => GateOf(s, "materialized")
    BY <1>1, MeetingGate DEF Meeting
  <2> QED BY <2>1, <2>2 DEF GateOf
<1>4. \A k : WellIn(s, k) => ~RefusedIn(s, k)
  BY DEF WellIn, RefusedIn
<1>5. ~NotUnlinked(s, q) /\ ~Missed(s, q)
  BY <1>2, Constants DEF NotUnlinked, Missed, CompleteIn
<1>6. ~Left(s, q)
  <2> SUFFICES ASSUME Left(s, q)
               PROVE  FALSE
    OBVIOUS
  <2>1. Nr("H5Fclose") <= Nr("left")
    BY <1>1, <1>2, PastIt DEF Left, Meeting
  <2> QED BY <2>1 DEF Nr
<1> QED BY <1>1, <1>2, <1>3, <1>4, <1>5, <1>6 DEF Protocol, OutcomesOK

\* What close told the caller is on the disk.
LEMMA ReturnedFollows == IInv => ReturnedMeansCommitted
<1> SUFFICES ASSUME IInv, NEW s \in Session, NEW r \in Rank,
                    outcome[s][r] = "ok", modes[s] # "r", Latest(s)
             PROVE  CommittedBy(s)
  BY DEF ReturnedMeansCommitted, CommittedBy
<1>1. TypeOK /\ Protocol /\ ReceiptOK
  BY DEF IInv
<1>2. came[s]["metadata_commit"][0] = "well"
  BY <1>1, EndedWell, Constants DEF WellIn
<1>3. ~(s > session[0]) /\ session[0] <= s
  BY <1>1, <1>2, Constants DEF Protocol, SessionsOK, Came, Meeting, Latest
<1>4. session[0] = s
  BY <1>1, <1>3, Constants, MeetingsAssumption DEF TypeOK, RanksOK, Session
<1> QED BY <1>1, <1>2, <1>4 DEF ReceiptOK

\* No rank skips a meeting, unless rank zero could not unlink.
LEMMA NobodySkipsFollows == IInv => NobodySkips
<1> SUFFICES ASSUME IInv, NEW s \in Session, NEW r \in Rank,
                    outcome[s][r] # "none", ~UnlinkRaised(s),
                    NEW m \in Meeting, NEW q \in Rank, Came(s, m, q)
             PROVE  Came(s, m, r)
  BY DEF NobodySkips, Came
<1>1. TypeOK /\ Protocol /\ OpensAlike
  BY DEF IInv
<1>2. \A k \in Meeting : CompleteIn(s, k) \/ WellIn(s, k) \/ RefusedIn(s, k) => GateOf(s, k)
  BY <1>1, MeetingGate
<1>3. GateOf(s, m)
  BY <1>1, MeetingGate
<1>4. \A k : WellIn(s, k) \/ RefusedIn(s, k) => CompleteIn(s, k)
  BY DEF WellIn, RefusedIn, CompleteIn, Came
<1>5. \A k : WellIn(s, k) => ~RefusedIn(s, k)
  BY DEF WellIn, RefusedIn
<1>6. CompleteIn(s, m) => Came(s, m, r)
  BY DEF CompleteIn
<1>7. WellIn(s, "materialized") => modes[s] # "r" /\ WellIn(s, "data_close")
  BY <1>2 DEF GateOf, Meeting
<1>8. CASE outcome[s][r] = "ok"
  <2>1. WellIn(s, "data_close")
        /\ (modes[s] # "r" => WellIn(s, "materialized") /\ WellIn(s, "metadata_commit"))
    BY <1>1, <1>8, EndedWell
  <2>2. CASE m \in {"materialized", "metadata_commit"}
    BY <2>1, <2>2, <1>3, <1>4, <1>6, <1>7 DEF GateOf
  <2>3. CASE m \notin {"materialized", "metadata_commit"}
    BY <2>1, <2>3, <1>1, <1>4, <1>6, AllCameBefore
  <2> QED BY <2>2, <2>3
<1>9. CASE RefusedIn(s, "SlabIO.open")
  <2>1. m # "SlabIO.open" => WellIn(s, "SlabIO.open")
    <3>1. CASE m \in Inside \cup {"data_close"}
      BY <3>1, <1>1, <1>3, OpenBehind
    <3>2. CASE m \in {"replace_inode", "H5Fopen"}
      BY <3>2, <1>3 DEF GateOf
    <3>3. CASE m \in {"materialized", "metadata_commit"}
      <4>1. WellIn(s, "data_close")
        BY <3>3, <1>3, <1>7 DEF GateOf
      <4>2. GateOf(s, "data_close")
        BY <4>1, <1>2 DEF Meeting
      <4> QED BY <4>2, <1>1, OpenBehind
    <3> QED BY <3>1, <3>2, <3>3 DEF Meeting, Inside
  <2> QED BY <2>1, <1>4, <1>5, <1>6, <1>9
<1>10. CASE RefusedIn(s, "data_close")
  <2>1. m \notin {"materialized", "metadata_commit"}
    BY <1>3, <1>5, <1>7, <1>10 DEF GateOf
  <2> QED BY <2>1, <1>1, <1>4, <1>6, <1>10, AllCameBefore
<1>11. CASE RefusedIn(s, "materialized") \/ RefusedIn(s, "metadata_commit")
  <2>1. WellIn(s, "data_close") /\ CompleteIn(s, "materialized")
        /\ (RefusedIn(s, "metadata_commit") \/ m # "metadata_commit")
    BY <1>2, <1>3, <1>4, <1>5, <1>11 DEF GateOf, Meeting
  <2>2. CASE m \in {"materialized", "metadata_commit"}
    BY <2>1, <2>2, <1>4, <1>6
  <2>3. CASE m \notin {"materialized", "metadata_commit"}
    BY <2>1, <2>3, <1>1, <1>4, <1>6, AllCameBefore
  <2> QED BY <2>2, <2>3
<1>12. CASE NotUnlinked(s, r) /\ outcome[s][r] = "raised"
  <2> UnlinkRaised(s)
    BY <1>1, <1>12 DEF NotUnlinked, UnlinkRaised, WellIn, Came, TypeOK, RanksOK, Meeting
  <2> QED OBVIOUS
<1>13. CASE Missed(s, r) /\ CompleteIn(s, "H5Fopen")
  <2>1. modes[s] = "r" /\ WellIn(s, "SlabIO.open")
    BY <1>2, <1>13 DEF Missed, GateOf, Meeting
  <2>2. m # "H5Fclose"
    BY <2>1, <1>1, <1>13 DEF OpensAlike, OpenedIn
  <2>3. ~CompleteIn(s, "H5Fclose")
    BY <1>13 DEF Missed, CompleteIn
  <2>4. m \notin {"data_close", "materialized", "metadata_commit"}
    <3>1. WellIn(s, "data_close") => GateOf(s, "data_close")
      BY <1>2 DEF Meeting
    <3> QED BY <3>1, <2>3, <1>3, <1>7 DEF GateOf
  <2>5. m \notin {"H5Dcreate", "zeros", "initialize_receipt", "H5Dwrite"}
    BY <2>1, <1>1, <1>3, OpenBehind DEF Inside
  <2>6. m # "replace_inode"
    BY <2>1, <1>3 DEF GateOf
  <2>7. m \in {"SlabIO.open", "H5Fopen"}
    BY <2>2, <2>4, <2>5, <2>6 DEF Meeting
  <2> QED BY <2>1, <2>7, <1>4, <1>6, <1>13
<1>14. outcome[s][r] \in {"ok", "raised"}
  BY <1>1 DEF TypeOK, RanksOK
<1> QED BY <1>1, <1>8, <1>9, <1>10, <1>11, <1>12, <1>13, <1>14 DEF Protocol, OutcomesOK

\* While one rank holds the path, rank zero is with it and not in its serial handle.
LEMMA OneLibraryFollows == IInv => OneLibrary
<1> SUFFICES ASSUME IInv, serial > 0, NEW r \in native
             PROVE  FALSE
  BY DEF OneLibrary
<1>1. TypeOK /\ Protocol /\ OpensAlike /\ HandlesOK /\ r \in Rank
  BY DEF IInv, TypeOK
<1>2. pc[0] \in Serial /\ pc[r] \in Inside
  BY <1>1 DEF HandlesOK
<1>3. pc[0] \in {"H5Fopen", "data_close"} \cup Inside
  BY <1>1, <1>2, Together, Constants
<1> QED BY <1>2, <1>3 DEF Serial, Publishing, Inside

\* What SlabIO promises of every session, whatever fails: it ends alike on all ranks;
\* after an end without an error the metadata and the receipt are on the disk, and the
\* data of every rank if no native close has failed; a rank that has ended a session
\* has skipped no collective call of it, unless rank zero could not unlink; and rank
\* zero's serial handle and the ranks' parallel ones never hold the path together.
THEOREM SlabKeepsItsPromises == Spec => []SlabInv
<1>1. IInv => SlabInv
  BY AlikeFollows, ReturnedFollows, NobodySkipsFollows, OneLibraryFollows DEF IInv, SlabInv
<1> QED BY <1>1, Inductive, PTL
=============================================================================
