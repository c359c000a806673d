------------------------- MODULE AtomicPublishProofs -------------------------
(***************************************************************************)
(* The safety of the file transactions, for any number of ranks, any       *)
(* number of transactions of any kinds, any faults and any number of kills.*)
(***************************************************************************)
EXTENDS AtomicPublish, TLAPS

-----------------------------------------------------------------------------
(* The inductive invariant *)

Came(s, m, r) == came[s][m][r] # "no"
CompleteIn(s, m) == \A q \in Rank : Came(s, m, q)
WellIn(s, m) == \A q \in Rank : came[s][m][q] = "well"
RefusedIn(s, m) == CompleteIn(s, m) /\ \E q \in Rank : came[s][m][q] = "failed"

\* Rank r is in session s, at one of the labels.
AtIn(r, s, labels) == session[r] = s /\ pc[r] \in labels

\* Nothing has happened in a session a rank has not begun; the one it is in has
\* not ended for it.
SessionsOK ==
    /\ \A r \in Rank, s \in Session : s > session[r] =>
         outcome[s][r] = "none" /\ \A m \in Meeting : ~Came(s, m, r)
    /\ \A r \in Rank : pc[r] # "ended" =>
         session[r] \in Session /\ outcome[session[r]][r] = "none"
    /\ \A s \in Session : s > session[0] => staging[s] = Absent
    /\ destination.by <= session[0]

\* A rank ahead of another has ended all the sessions in between, the one the
\* other is in included.
Ahead ==
    \A r, q \in Rank, s \in Session :
        /\ s > session[r] \/ (s = session[r] /\ pc[r] # "ended")
        /\ s < session[q] \/ (s = session[q] /\ pc[q] = "ended")
        => outcome[s][q] # "none"

\* A label says which kind of transaction a rank is in, and where it has come to.
LabelsFor(r) ==
    LET s == session[r] IN
        /\ pc[r] \in Meeting => Came(s, pc[r], r)
        /\ pc[r] \in {"reserving", "staging", "validating", "replacing", "cleaning"} => r = 0
        /\ pc[r] \in {"checking", "preflight"} => kind[s] = "checked"
        /\ pc[r] \in {"reserve", "writing", "write"} => kind[s] = "collective"
        /\ pc[r] = "staging" => kind[s] # "collective"
        /\ pc[r] = "checking" => ~Came(s, "preflight", r)
        /\ pc[r] = "reserving" => ~Came(s, "reserve", r)
        /\ pc[r] \in {"reserving", "reserve", "writing"} => ~Came(s, "write", r)
        /\ pc[r] \notin {"ended", "verdict"} => ~Came(s, "verdict", r)

LabelsOK == \A r \in Rank : LabelsFor(r)

\* Which ranks come to which meetings, and which of them may bring a failure.
MeetingsOK ==
    \A s \in Session, r \in Rank :
        /\ Came(s, "preflight", r) => kind[s] = "checked"
        /\ Came(s, "reserve", r) \/ Came(s, "write", r) => kind[s] = "collective"
        /\ came[s]["reserve"][r] = "failed" \/ came[s]["verdict"][r] = "failed" => r = 0

\* A rank is past a meeting only if all came to it well.
GatesOK ==
    \A s \in Session, r \in Rank :
        /\ /\ kind[s] = "checked"
           /\ \/ Came(s, "verdict", r)
              \/ AtIn(r, s, {"reserving", "staging", "validating", "replacing", "cleaning"})
           => WellIn(s, "preflight")
        /\ Came(s, "write", r) \/ AtIn(r, s, {"writing"}) => WellIn(s, "reserve")
        /\ /\ kind[s] = "collective"
           /\ \/ Came(s, "verdict", r)
              \/ AtIn(r, s, {"validating", "replacing"})
              \/ AtIn(r, s, {"cleaning"}) /\ error[0]
           => WellIn(s, "write")

\* Rank zero knows of a failure of its own only on its way out of one; it cleans
\* up without one after a refused write.
ErrorOK ==
    /\ pc[0] \notin {"ended", "cleaning", "verdict"} => ~error[0]
    /\ pc[0] = "cleaning" /\ ~error[0] =>
         kind[session[0]] = "collective" /\ RefusedIn(session[0], "write")

\* A verdict is that of a meeting all have come to.
OutcomesOK ==
    \A s \in Session, r \in Rank :
        /\ outcome[s][r] = "ok" => WellIn(s, "verdict")
        /\ outcome[s][r] = "raised" => \E m \in Meeting : RefusedIn(s, m)

\* The destination follows the verdict rank zero brings; what it renames is whole.
DestinationOK ==
    /\ destination.by # Before =>
         /\ destination.parts = Writers(destination.by)
         /\ came[destination.by]["verdict"][0] = "well"
    /\ \A s \in Session : came[s]["verdict"][0] = "well" /\ session[0] = s => destination.by = s
    /\ pc[0] = "replacing" => WholeOf(session[0], Mine)

\* The staging file is there from rank zero's reservation to its verdict; one that
\* could not be removed belongs to a transaction that failed on rank zero.
StagingOK ==
    /\ \A s \in Session :
         /\ came[s]["reserve"][0] = "failed" => staging[s] = Absent
         /\ Came(s, "verdict", 0) \/ outcome[s][0] # "none"
              => staging[s] = Absent \/ s \in unremoved
    /\ \A s \in unremoved : came[s]["verdict"][0] = "failed" \/ outcome[s][0] = "raised"
    /\ pc[0] \in {"checking", "preflight", "reserving"} => Mine = Absent
    /\ pc[0] \in {"reserve", "writing", "write"} /\ came[session[0]]["reserve"][0] = "well"
         => Mine # Absent

\* The part of it that speaks of labels and meetings alone.
Protocol == SessionsOK /\ Ahead /\ LabelsOK /\ MeetingsOK /\ GatesOK /\ OutcomesOK

IInv == /\ TypeOK /\ Protocol
        /\ ErrorOK /\ DestinationOK /\ StagingOK

-----------------------------------------------------------------------------
(* What a step of one rank does *)

\* Rank zero is a rank, and no staging file is mistaken for none.
LEMMA Constants == 0 \in Rank /\ 0 \notin Session /\ Absent \notin SUBSET Rank
BY MeetingsAssumption DEF Rank, Session, Absent

\* To come to a meeting: the label, and one entry of came.
LEMMA ComeEffect ==
    ASSUME TypeOK, NEW s \in Session, NEW r \in Rank, NEW m \in Meeting, NEW f \in BOOLEAN,
           ComeIn(s, r, m, f)
    PROVE  /\ came' \in [Session -> [Meeting -> [Rank -> {"no", "well", "failed"}]]]
           /\ pc' \in [Rank -> {"ended"} \cup Place \cup Meeting]
           /\ pc'[r] = m /\ \A q \in Rank : q # r => pc'[q] = pc[q]
           /\ came'[s][m][r] = IF f THEN "failed" ELSE "well"
           /\ \A t \in Session, n \in Meeting, q \in Rank :
                t # s \/ n # m \/ q # r => came'[t][n][q] = came[t][n][q]
BY DEF TypeOK, RanksOK, ComeIn, Goto

\* To go to another label without a meeting.
LEMMA MoveEffect ==
    ASSUME TypeOK, NEW r \in Rank, NEW label \in Place, Goto(r, label)
    PROVE  /\ pc' \in [Rank -> {"ended"} \cup Place \cup Meeting]
           /\ pc'[r] = label /\ \A q \in Rank : q # r => pc'[q] = pc[q]
BY DEF TypeOK, RanksOK, Goto

\* To end a transaction.
LEMMA EndEffect ==
    ASSUME TypeOK, NEW r \in Rank, session[r] \in Session, NEW how \in {"ok", "raised"}, End(r, how)
    PROVE  /\ outcome' \in [Session -> [Rank -> {"none", "ok", "raised"}]]
           /\ pc' \in [Rank -> {"ended"} \cup Place \cup Meeting]
           /\ pc'[r] = "ended" /\ \A q \in Rank : q # r => pc'[q] = pc[q]
           /\ outcome'[session[r]][r] = how
           /\ \A t \in Session, q \in Rank :
                t # session[r] \/ q # r => outcome'[t][q] = outcome[t][q]
           /\ came' = came
BY DEF TypeOK, RanksOK, End, Goto

\* What a step of rank r within its session leaves alone: the other ranks, the other
\* sessions, and what r has already told a meeting.
Local(r) ==
    /\ pc[r] # "ended"
    /\ session' = session /\ kind' = kind
    /\ \A q \in Rank : q # r => pc'[q] = pc[q]
    /\ \A s \in Session, m \in Meeting, q \in Rank :
         s # session[r] \/ q # r \/ Came(s, m, q) => came'[s][m][q] = came[s][m][q]
    /\ \A s \in Session, q \in Rank :
         s # session[r] \/ q # r => outcome'[s][q] = outcome[s][q]
    /\ pc'[r] = "ended" <=> outcome'[session[r]][r] # "none"

\* What a local step may do to the files: to those of rank zero's session alone.
LocalFiles ==
    /\ \A s \in Session : s # session[0] => staging'[s] = staging[s]
    /\ destination'.by \in {destination.by, session[0]}

\* What was said in a meeting stays said.
LEMMA StaysSaid ==
    ASSUME TypeOK, NEW r \in Rank, Local(r)
    PROVE  \A s \in Session, m \in Meeting :
             /\ \A q \in Rank : Came(s, m, q) => came'[s][m][q] = came[s][m][q]
             /\ WellIn(s, m) => WellIn(s, m)'
             /\ RefusedIn(s, m) => RefusedIn(s, m)'
BY DEF Local, Came, WellIn, RefusedIn, CompleteIn

\* The order of the sessions is that of the ranks' own progress.
LEMMA LocalKeepsOrder ==
    ASSUME TypeOK, SessionsOK, Ahead, NEW r \in Rank, Local(r), LocalFiles
    PROVE  SessionsOK' /\ Ahead'
<1> USE DEF RanksOK
<1>1. session[r] \in Session /\ outcome[session[r]][r] = "none"
  BY DEF SessionsOK, Local
<1>2. SessionsOK'
  <2>1. ASSUME NEW q \in Rank, NEW s \in Session, s > session'[q]
        PROVE  outcome'[s][q] = "none" /\ \A m \in Meeting : ~Came(s, m, q)'
    <3>1. session'[q] = session[q] /\ (s # session[r] \/ q # r)
      BY <2>1, MeetingsAssumption DEF Local, Session
    <3>2. outcome[s][q] = "none" /\ \A m \in Meeting : ~Came(s, m, q)
      BY <3>1, <2>1 DEF SessionsOK
    <3> QED BY <3>1, <3>2 DEF Local, Came
  <2>2. ASSUME NEW q \in Rank, pc'[q] # "ended"
        PROVE  session'[q] \in Session /\ outcome'[session'[q]][q] = "none"
    BY <2>2, <1>1 DEF SessionsOK, Local
  <2>3. \A s \in Session : s > session'[0] => staging'[s] = Absent
    BY Constants, MeetingsAssumption
       DEF SessionsOK, Local, LocalFiles, Rank, Session
  <2>4. destination'.by <= session'[0]
    BY Constants, MeetingsAssumption
       DEF TypeOK, SessionsOK, Local, LocalFiles, Rank, Session, Before
  <2> QED BY <2>1, <2>2, <2>3, <2>4 DEF SessionsOK
<1>3. Ahead'
  <2> SUFFICES ASSUME NEW q \in Rank, NEW p \in Rank, NEW s \in Session,
                      s > session[q] \/ (s = session[q] /\ pc'[q] # "ended"),
                      s < session[p] \/ (s = session[p] /\ pc'[p] = "ended")
               PROVE  outcome'[s][p] # "none"
    BY DEF Ahead, Local
  <2>1. CASE p = r /\ s = session[r]
    BY <2>1, <1>1, MeetingsAssumption DEF Local, Session
  <2>2. CASE p = r /\ s # session[r]
    BY <2>2, <1>1 DEF Ahead, Local
  <2>3. CASE p # r /\ q # r
    BY <2>3 DEF Ahead, Local
  <2>4. CASE p # r /\ q = r
    BY <2>4, <1>1 DEF Ahead, Local
  <2> QED BY <2>1, <2>2, <2>3, <2>4
<1> QED BY <1>2, <1>3

\* To which meeting a rank may come, and how.
MayCome(r, m, how) == LET s == session[r] IN
    /\ ~Came(s, m, r)
    /\ how = "failed" /\ m \in {"reserve", "verdict"} => r = 0
    /\ m = "preflight" => kind[s] = "checked"
    /\ m \in {"reserve", "write"} => kind[s] = "collective"
    /\ m = "reserve" => ~Came(s, "write", r)
    /\ m = "write" => WellIn(s, "reserve")
    /\ m = "verdict" => /\ kind[s] = "checked" => WellIn(s, "preflight")
                        /\ kind[s] = "collective" => WellIn(s, "write")
    /\ m # "verdict" => ~Came(s, "verdict", r)

\* A rank that may come to a meeting and does.
LEMMA ComeKeepsProtocol ==
    ASSUME TypeOK, Protocol, NEW r \in Rank, NEW m \in Meeting, NEW f \in BOOLEAN,
           MayCome(r, m, IF f THEN "failed" ELSE "well"), pc[r] # "ended",
           Come(r, m, f), UNCHANGED <<within, error, outcome>>, LocalFiles
    PROVE  Local(r) /\ Protocol'
<1> DEFINE s == session[r]
           v == IF f THEN "failed" ELSE "well"
<1>1. s \in Session /\ outcome[s][r] = "none" /\ session' = session /\ kind' = kind
      /\ outcome' = outcome /\ error' = error
  BY DEF Protocol, SessionsOK, within
<1>2. /\ pc'[r] = m /\ \A q \in Rank : q # r => pc'[q] = pc[q]
      /\ came'[s][m][r] = v
      /\ \A t \in Session, n \in Meeting, q \in Rank :
           t # s \/ n # m \/ q # r => came'[t][n][q] = came[t][n][q]
  BY <1>1, ComeEffect DEF Come
<1>3. Local(r)
  BY <1>1, <1>2 DEF Local, MayCome, Meeting
<1>4. SessionsOK' /\ Ahead'
  BY <1>3, LocalKeepsOrder DEF Protocol
<1>5. \A t \in Session, n \in Meeting :
         /\ \A q \in Rank : Came(t, n, q) => came'[t][n][q] = came[t][n][q]
         /\ WellIn(t, n) => WellIn(t, n)'
         /\ RefusedIn(t, n) => RefusedIn(t, n)'
  BY <1>3, StaysSaid
<1>6. LabelsOK'
  <2> SUFFICES ASSUME NEW q \in Rank
               PROVE  LabelsFor(q)'
    BY DEF LabelsOK
  <2>1. CASE q = r
    BY <2>1, <1>1, <1>2 DEF LabelsFor, MayCome, Came, Meeting
  <2>2. CASE q # r
    BY <2>2, <1>1, <1>2, SMTT(60)
       DEF Protocol, LabelsOK, LabelsFor, SessionsOK, Came, Meeting
  <2> QED BY <2>1, <2>2
<1>7. MeetingsOK'
  BY <1>1, <1>2 DEF Protocol, MeetingsOK, MayCome, Came, Meeting
<1>8. GatesOK'
  BY <1>1, <1>2, <1>5 DEF Protocol, GatesOK, MayCome, Came, AtIn, Meeting
<1>9. OutcomesOK'
  BY <1>1, <1>5 DEF Protocol, OutcomesOK, Meeting
<1> QED BY <1>3, <1>4, <1>6, <1>7, <1>8, <1>9 DEF Protocol

\* To which place rank zero, or to its writing any rank, may go.
MayMove(r, label) == LET s == session[r] IN
    /\ label # "checking" /\ (label # "writing" => r = 0)
    /\ ~Came(s, "verdict", r)
    /\ label = "reserving" => ~Came(s, "reserve", r) /\ ~Came(s, "write", r)
    /\ label = "staging" => kind[s] # "collective"
    /\ label = "writing" =>
         kind[s] = "collective" /\ WellIn(s, "reserve") /\ ~Came(s, "write", r)
    /\ kind[s] = "checked" => WellIn(s, "preflight")
    /\ kind[s] = "collective" /\ label \in {"validating", "replacing"} => WellIn(s, "write")
    /\ kind[s] = "collective" /\ label = "cleaning" /\ error'[0] => WellIn(s, "write")

\* A rank that may go on and does.
LEMMA MoveKeepsProtocol ==
    ASSUME TypeOK, Protocol, NEW r \in Rank, NEW label \in Place,
           MayMove(r, label), pc[r] # "ended",
           Goto(r, label), UNCHANGED <<within, came, outcome>>, r # 0 => error' = error, LocalFiles
    PROVE  Local(r) /\ Protocol'
<1> DEFINE s == session[r]
<1>1. s \in Session /\ outcome[s][r] = "none" /\ session' = session /\ kind' = kind
      /\ outcome' = outcome /\ came' = came
  BY DEF Protocol, SessionsOK, within
<1>2. pc'[r] = label /\ \A q \in Rank : q # r => pc'[q] = pc[q]
  BY MoveEffect
<1>3. Local(r)
  BY <1>1, <1>2 DEF Local, Place
<1>4. SessionsOK' /\ Ahead'
  BY <1>3, LocalKeepsOrder DEF Protocol
<1>5. \A t \in Session, n \in Meeting :
         (WellIn(t, n)' <=> WellIn(t, n)) /\ (RefusedIn(t, n)' <=> RefusedIn(t, n))
  BY <1>1 DEF WellIn, RefusedIn, CompleteIn, Came
<1>6. LabelsOK'
  BY <1>1, <1>2
     DEF Protocol, LabelsOK, LabelsFor, MayMove, Came, Meeting, Place
<1>7. MeetingsOK'
  BY <1>1 DEF Protocol, MeetingsOK, Came
<1>8. GatesOK'
  <2> SUFFICES ASSUME NEW t \in Session, NEW q \in Rank
               PROVE  /\ /\ kind[t] = "checked"
                         /\ \/ Came(t, "verdict", q)
                            \/ AtIn(q, t, {"reserving", "staging", "validating", "replacing", "cleaning"})'
                         => WellIn(t, "preflight")
                      /\ Came(t, "write", q) \/ AtIn(q, t, {"writing"})' => WellIn(t, "reserve")
                      /\ /\ kind[t] = "collective"
                         /\ \/ Came(t, "verdict", q)
                            \/ AtIn(q, t, {"validating", "replacing"})'
                            \/ AtIn(q, t, {"cleaning"})' /\ error'[0]
                         => WellIn(t, "write")
    BY <1>1, <1>5 DEF GatesOK, Came, Meeting
  <2>1. CASE q = r
    BY <2>1, <1>1, <1>2 DEF Protocol, GatesOK, MayMove, AtIn
  <2>2. CASE q # r
    <3>1. pc'[q] = "cleaning" => error' = error
      BY <2>2, <1>2 DEF Protocol, LabelsOK, LabelsFor
    <3> QED BY <2>2, <1>1, <1>2, <3>1 DEF Protocol, GatesOK, AtIn
  <2> QED BY <2>1, <2>2
<1>9. OutcomesOK'
  BY <1>1, <1>5 DEF Protocol, OutcomesOK, Meeting
<1> QED BY <1>3, <1>4, <1>6, <1>7, <1>8, <1>9 DEF Protocol

\* How a transaction may end.
MayEnd(r, how) == LET s == session[r] IN
    /\ how = "ok" => WellIn(s, "verdict")
    /\ how = "raised" => \E m \in Meeting : RefusedIn(s, m)

\* A rank that may end and does.
LEMMA EndKeepsProtocol ==
    ASSUME TypeOK, Protocol, NEW r \in Rank, NEW how \in {"ok", "raised"},
           MayEnd(r, how), pc[r] # "ended",
           End(r, how), UNCHANGED <<within, error>>, LocalFiles
    PROVE  Local(r) /\ Protocol'
<1> DEFINE s == session[r]
<1>1. s \in Session /\ outcome[s][r] = "none" /\ session' = session /\ kind' = kind
      /\ error' = error
  BY DEF Protocol, SessionsOK, within
<1>2. /\ pc'[r] = "ended" /\ \A q \in Rank : q # r => pc'[q] = pc[q]
      /\ outcome'[s][r] = how
      /\ \A t \in Session, q \in Rank : t # s \/ q # r => outcome'[t][q] = outcome[t][q]
      /\ came' = came
  BY <1>1, EndEffect
<1>3. Local(r)
  BY <1>1, <1>2 DEF Local
<1>4. SessionsOK' /\ Ahead'
  BY <1>3, LocalKeepsOrder DEF Protocol
<1>5. \A t \in Session, n \in Meeting :
         (WellIn(t, n)' <=> WellIn(t, n)) /\ (RefusedIn(t, n)' <=> RefusedIn(t, n))
  BY <1>2 DEF WellIn, RefusedIn, CompleteIn, Came
<1>6. LabelsOK'
  BY <1>1, <1>2 DEF Protocol, LabelsOK, LabelsFor, Came, Meeting
<1>7. MeetingsOK'
  BY <1>1, <1>2 DEF Protocol, MeetingsOK, Came
<1>8. GatesOK'
  BY <1>1, <1>2, <1>5 DEF Protocol, GatesOK, Came, AtIn, Meeting
<1>9. OutcomesOK'
  BY <1>1, <1>2, <1>5 DEF Protocol, OutcomesOK, MayEnd, Meeting
<1> QED BY <1>3, <1>4, <1>6, <1>7, <1>8, <1>9 DEF Protocol

\* A step of another rank leaves alone what rank zero's files depend on.
LEMMA OtherKeepsFiles ==
    ASSUME TypeOK, SessionsOK, ErrorOK, DestinationOK, StagingOK,
           NEW r \in Rank, r # 0, Local(r), UNCHANGED <<files, error>>
    PROVE  ErrorOK' /\ DestinationOK' /\ StagingOK'
<1>1. /\ session' = session /\ kind' = kind /\ pc'[0] = pc[0] /\ error' = error
      /\ staging' = staging /\ destination' = destination /\ unremoved' = unremoved
      /\ \A s \in Session : outcome'[s][0] = outcome[s][0]
                            /\ \A m \in Meeting : came'[s][m][0] = came[s][m][0]
  BY Constants DEF Local, files
<1>0. pc[0] # "ended" => session[0] \in Session
  BY Constants DEF SessionsOK
<1>2. \A s \in Session, m \in Meeting : RefusedIn(s, m) => RefusedIn(s, m)'
  BY StaysSaid
<1>3. ErrorOK'
  <2> SUFFICES ASSUME pc[0] = "cleaning", ~error[0] PROVE RefusedIn(session[0], "write")'
    BY <1>1 DEF ErrorOK
  <2>1. RefusedIn(session[0], "write")
    BY DEF ErrorOK
  <2>2. session[0] \in Session
    BY <1>0
  <2> QED BY <1>1, <1>2, <2>1, <2>2 DEF Meeting
<1>4. DestinationOK'
  BY <1>1 DEF DestinationOK, Writers, WholeOf, Mine, Meeting, Before, TypeOK
<1>5. StagingOK'
  BY <1>0, <1>1 DEF StagingOK, Mine, Came, Meeting, TypeOK
<1> QED BY <1>3, <1>4, <1>5

\* What a meeting that is over decided.
LEMMA MetMeans ==
    ASSUME TypeOK, NEW r \in Rank, NEW m \in Meeting, session[r] \in Session, Met(r, m)
    PROVE  /\ Refused(r, m) => RefusedIn(session[r], m)
           /\ ~Refused(r, m) => WellIn(session[r], m)
BY DEF TypeOK, RanksOK, Met, Complete, Refused, At, RefusedIn, CompleteIn,
       WellIn, Came

\* The staging file of the transaction rank zero is in is there while it should be.
StagingFits == LET s == session[0] IN
    /\ came[s]["reserve"][0] = "failed" \/ pc[0] \in {"checking", "preflight", "reserving"}
       => staging[s] = Absent
    /\ Came(s, "verdict", 0) \/ outcome[s][0] # "none"
       => staging[s] = Absent \/ s \in unremoved
    /\ pc[0] \in {"reserve", "writing", "write"} /\ came[s]["reserve"][0] = "well"
       => staging[s] # Absent

\* A removal fails only in the transaction rank zero is in, which then fails.
FailsToRemove ==
    /\ unremoved' = unremoved \cup {session[0]}
    /\ came'[session[0]]["verdict"][0] = "failed" \/ outcome'[session[0]][0] = "raised"

\* The staging files of the others are not at stake in a step of rank zero.
LEMMA RootKeepsStaging ==
    ASSUME TypeOK, Protocol, StagingOK, session[0] \in Session, Local(0), StagingFits',
           unremoved' = unremoved \/ FailsToRemove,
           \A s \in Session : s # session[0] => staging'[s] = staging[s]
    PROVE  StagingOK'
<1>1. /\ session' = session
      /\ \A s \in Session : s # session[0] => /\ outcome'[s][0] = outcome[s][0]
                                            /\ \A m \in Meeting : came'[s][m][0] = came[s][m][0]
  BY Constants DEF Local
<1>2. \A s \in Session : /\ came'[s]["reserve"][0] = "failed" => staging'[s] = Absent
                         /\ Came(s, "verdict", 0)' \/ outcome'[s][0] # "none"
                              => staging'[s] = Absent \/ s \in unremoved'
  BY <1>1 DEF StagingOK, StagingFits, Came, Meeting, FailsToRemove
<1>3. ASSUME NEW s \in unremoved'
      PROVE  came'[s]["verdict"][0] = "failed" \/ outcome'[s][0] = "raised"
  <2>1. CASE s \in unremoved
    <3>1. came[s]["verdict"][0] = "failed" \/ outcome[s][0] = "raised"
      BY <2>1 DEF StagingOK
    <3>2. s \in Session
      BY <2>1 DEF TypeOK
    <3>3. came[s]["verdict"][0] = "failed" => came'[s]["verdict"][0] = "failed"
      BY <3>2, Constants DEF Local, Came, Meeting
    <3>4. outcome[s][0] = "raised" => s # session[0]
      BY Constants DEF Protocol, SessionsOK, Local
    <3> QED BY <1>1, <3>1, <3>2, <3>3, <3>4
  <2> QED BY <1>3, <2>1 DEF FailsToRemove
<1> QED BY <1>1, <1>2, <1>3 DEF StagingOK, StagingFits, Mine

\* While a rank writes its part, rank zero is in the same transaction, and has a
\* staging file for it: it removes that file, or gives it its final name, only
\* after the agreement on the writing, to which this rank has yet to come.
LEMMA WritingTogether ==
    ASSUME IInv, NEW r \in Rank, pc[r] = "writing"
    PROVE  /\ session[0] = session[r] /\ session[r] \in Session
           /\ pc[0] \in {"reserve", "writing", "write"}
           /\ came[session[0]]["reserve"][0] = "well"
           /\ Mine # Absent
<1> DEFINE s == session[r]
<1>1. s \in Session /\ kind[s] = "collective"
      /\ ~Came(s, "write", r) /\ ~Came(s, "verdict", r) /\ WellIn(s, "reserve")
  BY DEF IInv, Protocol, SessionsOK, LabelsOK, LabelsFor, GatesOK, AtIn
<1>2. came[s]["reserve"][0] = "well"
  BY <1>1, Constants DEF WellIn
<1>3. session[0] >= s
  <2>1. ~(s > session[0])
    BY <1>1, <1>2, Constants DEF IInv, Protocol, SessionsOK, Came, Meeting
  <2> QED BY <2>1, <1>1, Constants, MeetingsAssumption
             DEF IInv, TypeOK, RanksOK, Session
<1>4. outcome[s][0] = "none"
  <2>1. outcome[s][0] # "ok"
    BY <1>1, Constants DEF IInv, Protocol, OutcomesOK, WellIn, Came
  <2>2. ASSUME NEW m \in Meeting PROVE ~RefusedIn(s, m)
    <3>1. CASE m = "preflight"
      BY <3>1, <1>1
         DEF IInv, Protocol, MeetingsOK, RefusedIn, CompleteIn, Came
    <3>2. CASE m = "reserve"
      BY <3>2, <1>1 DEF RefusedIn, WellIn
    <3>3. CASE m \in {"write", "verdict"}
      BY <3>3, <1>1 DEF RefusedIn, CompleteIn
    <3> QED BY <3>1, <3>2, <3>3 DEF Meeting
  <2>3. outcome[s][0] # "raised"
    BY <1>1, <2>2, Constants DEF IInv, Protocol, OutcomesOK
  <2> QED BY <2>1, <2>3, <1>1, Constants DEF IInv, TypeOK, RanksOK
<1>5. session[0] = s /\ pc[0] # "ended"
  <2>1. ~(s < session[0] \/ (s = session[0] /\ pc[0] = "ended"))
    BY <1>1, <1>4, Constants DEF IInv, Protocol, Ahead
  <2> QED BY <2>1, <1>1, <1>3, Constants DEF IInv, TypeOK, RanksOK, Session
<1>6. pc[0] \in {"reserve", "writing", "write"}
  <2>1. pc[0] \notin {"checking", "preflight", "reserving", "staging"}
    BY <1>1, <1>2, <1>5, Constants
       DEF IInv, Protocol, LabelsOK, LabelsFor, Came
  <2>2. ~WellIn(s, "write") /\ ~RefusedIn(s, "write")
    BY <1>1 DEF WellIn, RefusedIn, CompleteIn, Came
  <2>3. pc[0] \notin {"validating", "replacing", "cleaning"}
    BY <2>2, <1>1, <1>5, Constants DEF IInv, ErrorOK, Protocol, GatesOK, AtIn
  <2>4. pc[0] # "verdict"
    BY <2>2, <1>1, <1>5, Constants
       DEF IInv, Protocol, GatesOK, LabelsOK, LabelsFor, Meeting
  <2> QED BY <2>1, <2>3, <2>4, <1>5, Constants
             DEF IInv, TypeOK, RanksOK, Place, Meeting
<1>7. Mine # Absent
  BY <1>2, <1>5, <1>6 DEF IInv, StagingOK
<1> QED BY <1>1, <1>2, <1>5, <1>6, <1>7

-----------------------------------------------------------------------------
(* Every step *)

\* Every step of the ranks, of the disk and of a crash keeps the invariant.
LEMMA NextIInv == IInv /\ [Next]_vars => IInv'
<1> SUFFICES ASSUME IInv, [Next]_vars PROVE IInv'
  OBVIOUS
<1> USE DEF IInv
<1>1. ASSUME Reserve PROVE IInv'
  <2>1. CASE KindOf(0) = "collective"
    <3>1. pc[0] # "ended" /\ session[0] \in Session /\ outcome[session[0]][0] = "none"
          /\ (destination.by # Before => destination.by \in Session)
      BY <1>1, <2>1, Constants
         DEF Reserve, Protocol, SessionsOK, Meeting, TypeOK, Before
    <3>2. MayCome(0, "reserve", IF FALSE THEN "failed" ELSE "well")
      BY <3>1, <1>1, <2>1, Constants, MetMeans
         DEF Reserve, MayCome, TypeOK, Protocol, SessionsOK, LabelsOK,
             LabelsFor, MeetingsOK, GatesOK, OutcomesOK, ErrorOK,
             DestinationOK, StagingOK, Came, AtIn, KindOf, Stage, Met, Kind,
             Meeting, Place
    <3>3. Come(0, "reserve", FALSE) /\ UNCHANGED <<within, error, outcome>>
      BY <1>1, <2>1 DEF Reserve, Come, Stage, KindOf
    <3>4. /\ pc'[0] = "reserve" /\ \A q \in Rank : q # 0 => pc'[q] = pc[q]
          /\ came'[session[0]]["reserve"][0] = "well"
          /\ \A t \in Session, n \in Meeting, q \in Rank :
               t # session[0] \/ n # "reserve" \/ q # 0 => came'[t][n][q] = came[t][n][q]
          /\ pc' \in [Rank -> {"ended"} \cup Place \cup Meeting]
          /\ came' \in [Session -> [Meeting -> [Rank -> {"no", "well", "failed"}]]]
      BY <3>1, <3>3, <1>1, <2>1, Constants, ComeEffect
         DEF Come, Meeting, Place
    <3>5. LocalFiles
      BY <3>1, <1>1, <2>1, Constants
         DEF Reserve, LocalFiles, Stage, TypeOK, RanksOK
    <3>6. Local(0) /\ Protocol'
      BY <3>1, <3>2, <3>3, <3>5, Constants, ComeKeepsProtocol DEF Meeting
    <3>7. staging'[session[0]] = {} /\ (\A s \in Session : s # session[0] => staging'[s] = staging[s]) /\ unremoved' = unremoved /\ destination' = destination /\ error' = error /\ {} # Absent /\ pc[0] = "reserving" /\ ~Came(session[0], "reserve", 0) /\ ~Came(session[0], "verdict", 0)
      <4>1. staging'[session[0]] = {} /\ (\A s \in Session : s # session[0] => staging'[s] = staging[s]) /\ unremoved' = unremoved /\ destination' = destination /\ error' = error
        BY <3>1, <1>1, <2>1, Constants DEF Reserve, Stage, TypeOK, RanksOK
      <4>2. {} # Absent /\ pc[0] = "reserving" /\ ~Came(session[0], "reserve", 0) /\ ~Came(session[0], "verdict", 0)
        BY <3>1, <1>1, <2>1, Constants, MetMeans
           DEF Reserve, Protocol, LabelsOK, LabelsFor, StagingOK, ErrorOK,
               MeetingsOK, Came, Mine, Met, Refused, At, Meeting
      <4> QED BY <4>1, <4>2
    <3>8. faults' \in 0 .. MaxFaults
      BY <1>1, <2>1, MeetingsAssumption DEF Reserve, TypeOK, RanksOK
    <3>9. TypeOK'
      BY <3>1, <3>3, <3>4, <3>7, <3>8, <1>1, <2>1, Constants
         DEF Reserve, Stage, TypeOK, RanksOK, within
    <3>10. ErrorOK'
      BY <3>1, <3>3, <3>4, <3>7, <1>1, <2>1, Constants, <3>6, StaysSaid
         DEF ErrorOK, Meeting
    <3>11. DestinationOK'
      BY <3>1, <3>3, <3>4, <3>7, <1>1, <2>1, Constants
         DEF DestinationOK, Writers, WholeOf, Mine, Before, KindOf, Meeting,
             within
    <3>12. StagingOK'
      BY <3>1, <3>3, <3>4, <3>7, <1>1, <2>1, Constants, <3>6, RootKeepsStaging
         DEF StagingFits, Came, Mine, within, Meeting
    <3> QED BY <3>6, <3>9, <3>10, <3>11, <3>12
  <2>2. CASE KindOf(0) # "collective"
    <3>1. pc[0] # "ended" /\ session[0] \in Session /\ outcome[session[0]][0] = "none"
          /\ (destination.by # Before => destination.by \in Session)
      BY <1>1, <2>2, Constants
         DEF Reserve, Protocol, SessionsOK, Meeting, TypeOK, Before
    <3>2. MayMove(0, "staging")
      BY <3>1, <1>1, <2>2, Constants, MetMeans
         DEF Reserve, MayMove, TypeOK, Protocol, SessionsOK, LabelsOK,
             LabelsFor, MeetingsOK, GatesOK, OutcomesOK, ErrorOK,
             DestinationOK, StagingOK, Came, AtIn, KindOf, Stage, Met, Kind,
             Meeting, Place
    <3>3. Goto(0, "staging") /\ UNCHANGED <<within, came, outcome>>
      BY <1>1, <2>2 DEF Reserve, Stage, KindOf
    <3>4. /\ pc'[0] = "staging" /\ \A q \in Rank : q # 0 => pc'[q] = pc[q]
          /\ pc' \in [Rank -> {"ended"} \cup Place \cup Meeting]
      BY <3>1, <3>3, <1>1, <2>2, Constants, MoveEffect DEF Place
    <3>5. LocalFiles
      BY <3>1, <1>1, <2>2, Constants
         DEF Reserve, LocalFiles, Stage, TypeOK, RanksOK
    <3>6. Local(0) /\ Protocol'
      BY <3>1, <3>2, <3>3, <3>5, Constants, MoveKeepsProtocol DEF Place
    <3>7. staging'[session[0]] = {} /\ (\A s \in Session : s # session[0] => staging'[s] = staging[s]) /\ unremoved' = unremoved /\ destination' = destination /\ error' = error /\ {} # Absent /\ pc[0] = "reserving" /\ ~Came(session[0], "reserve", 0) /\ ~Came(session[0], "verdict", 0)
      <4>1. staging'[session[0]] = {} /\ (\A s \in Session : s # session[0] => staging'[s] = staging[s]) /\ unremoved' = unremoved /\ destination' = destination /\ error' = error
        BY <3>1, <1>1, <2>2, Constants DEF Reserve, Stage, TypeOK, RanksOK
      <4>2. {} # Absent /\ pc[0] = "reserving" /\ ~Came(session[0], "reserve", 0) /\ ~Came(session[0], "verdict", 0)
        BY <3>1, <1>1, <2>2, Constants, MetMeans
           DEF Reserve, Protocol, LabelsOK, LabelsFor, StagingOK, ErrorOK,
               MeetingsOK, Came, Mine, Met, Refused, At, Meeting
      <4> QED BY <4>1, <4>2
    <3>8. faults' \in 0 .. MaxFaults
      BY <1>1, <2>2, MeetingsAssumption DEF Reserve, TypeOK, RanksOK
    <3>9. TypeOK'
      BY <3>1, <3>3, <3>4, <3>7, <3>8, <1>1, <2>2, Constants
         DEF Reserve, Stage, TypeOK, RanksOK, within
    <3>10. ErrorOK'
      BY <3>1, <3>3, <3>4, <3>7, <1>1, <2>2, Constants, <3>6, StaysSaid
         DEF ErrorOK, Meeting
    <3>11. DestinationOK'
      BY <3>1, <3>3, <3>4, <3>7, <1>1, <2>2, Constants
         DEF DestinationOK, Writers, WholeOf, Mine, Before, KindOf, Meeting,
             within
    <3>12. StagingOK'
      BY <3>1, <3>3, <3>4, <3>7, <1>1, <2>2, Constants, <3>6, RootKeepsStaging
         DEF StagingFits, Came, Mine, within, Meeting
    <3> QED BY <3>6, <3>9, <3>10, <3>11, <3>12
  <2> QED BY <2>1, <2>2
<1>2. ASSUME ReserveFails PROVE IInv'
  <2>1. CASE KindOf(0) = "collective"
    <3>1. pc[0] # "ended" /\ session[0] \in Session /\ outcome[session[0]][0] = "none"
          /\ (destination.by # Before => destination.by \in Session)
      BY <1>2, <2>1, Constants
         DEF ReserveFails, Protocol, SessionsOK, Meeting, TypeOK, Before
    <3>2. MayCome(0, "reserve", IF TRUE THEN "failed" ELSE "well")
      BY <3>1, <1>2, <2>1, Constants, MetMeans
         DEF ReserveFails, MayCome, TypeOK, Protocol, SessionsOK, LabelsOK,
             LabelsFor, MeetingsOK, GatesOK, OutcomesOK, ErrorOK,
             DestinationOK, StagingOK, Came, AtIn, KindOf, AfterReserve, Met,
             Kind, MayFail, Meeting, Place
    <3>3. Come(0, "reserve", TRUE) /\ UNCHANGED <<within, error, outcome>>
      BY <1>2, <2>1 DEF ReserveFails, Come, KindOf, AfterReserve
    <3>4. /\ pc'[0] = "reserve" /\ \A q \in Rank : q # 0 => pc'[q] = pc[q]
          /\ came'[session[0]]["reserve"][0] = "failed"
          /\ \A t \in Session, n \in Meeting, q \in Rank :
               t # session[0] \/ n # "reserve" \/ q # 0 => came'[t][n][q] = came[t][n][q]
          /\ pc' \in [Rank -> {"ended"} \cup Place \cup Meeting]
          /\ came' \in [Session -> [Meeting -> [Rank -> {"no", "well", "failed"}]]]
      BY <3>1, <3>3, <1>2, <2>1, Constants, ComeEffect
         DEF Come, Meeting, Place
    <3>5. LocalFiles
      BY <3>1, <1>2, <2>1, Constants
         DEF ReserveFails, LocalFiles, files, TypeOK, RanksOK
    <3>6. Local(0) /\ Protocol'
      BY <3>1, <3>2, <3>3, <3>5, Constants, ComeKeepsProtocol DEF Meeting
    <3>7. staging' = staging /\ unremoved' = unremoved /\ destination' = destination /\ error' = error /\ pc[0] = "reserving" /\ Mine = Absent /\ ~Came(session[0], "verdict", 0)
      <4>1. staging' = staging /\ unremoved' = unremoved /\ destination' = destination /\ error' = error
        BY <3>1, <1>2, <2>1, Constants
           DEF ReserveFails, files, TypeOK, RanksOK
      <4>2. pc[0] = "reserving" /\ Mine = Absent /\ ~Came(session[0], "verdict", 0)
        BY <3>1, <1>2, <2>1, Constants, MetMeans
           DEF ReserveFails, Protocol, LabelsOK, LabelsFor, StagingOK,
               ErrorOK, MeetingsOK, Came, Mine, Met, Refused, At, Meeting
      <4> QED BY <4>1, <4>2
    <3>8. faults' \in 0 .. MaxFaults
      BY <1>2, <2>1, MeetingsAssumption
         DEF ReserveFails, MayFail, TypeOK, RanksOK
    <3>9. TypeOK'
      BY <3>1, <3>3, <3>4, <3>7, <3>8, <1>2, <2>1, Constants
         DEF TypeOK, RanksOK, within, Mine
    <3>10. ErrorOK'
      BY <3>1, <3>3, <3>4, <3>7, <1>2, <2>1, Constants, <3>6, StaysSaid
         DEF ErrorOK, Meeting
    <3>11. DestinationOK'
      BY <3>1, <3>3, <3>4, <3>7, <1>2, <2>1, Constants
         DEF DestinationOK, Writers, WholeOf, Mine, Before, KindOf, Meeting,
             within
    <3>12. StagingOK'
      BY <3>1, <3>3, <3>4, <3>7, <1>2, <2>1, Constants, <3>6, RootKeepsStaging
         DEF StagingFits, Came, Mine, within, Meeting
    <3> QED BY <3>6, <3>9, <3>10, <3>11, <3>12
  <2>2. CASE KindOf(0) # "collective"
    <3>1. pc[0] # "ended" /\ session[0] \in Session /\ outcome[session[0]][0] = "none"
          /\ (destination.by # Before => destination.by \in Session)
      BY <1>2, <2>2, Constants
         DEF ReserveFails, Protocol, SessionsOK, Meeting, TypeOK, Before
    <3>2. MayCome(0, "verdict", IF TRUE THEN "failed" ELSE "well")
      BY <3>1, <1>2, <2>2, Constants, MetMeans
         DEF ReserveFails, MayCome, TypeOK, Protocol, SessionsOK, LabelsOK,
             LabelsFor, MeetingsOK, GatesOK, OutcomesOK, ErrorOK,
             DestinationOK, StagingOK, Came, AtIn, KindOf, AfterReserve, Met,
             Kind, MayFail, Meeting, Place
    <3>3. Come(0, "verdict", TRUE) /\ UNCHANGED <<within, error, outcome>>
      BY <1>2, <2>2 DEF ReserveFails, Come, KindOf, AfterReserve
    <3>4. /\ pc'[0] = "verdict" /\ \A q \in Rank : q # 0 => pc'[q] = pc[q]
          /\ came'[session[0]]["verdict"][0] = "failed"
          /\ \A t \in Session, n \in Meeting, q \in Rank :
               t # session[0] \/ n # "verdict" \/ q # 0 => came'[t][n][q] = came[t][n][q]
          /\ pc' \in [Rank -> {"ended"} \cup Place \cup Meeting]
          /\ came' \in [Session -> [Meeting -> [Rank -> {"no", "well", "failed"}]]]
      BY <3>1, <3>3, <1>2, <2>2, Constants, ComeEffect
         DEF Come, Meeting, Place
    <3>5. LocalFiles
      BY <3>1, <1>2, <2>2, Constants
         DEF ReserveFails, LocalFiles, files, TypeOK, RanksOK
    <3>6. Local(0) /\ Protocol'
      BY <3>1, <3>2, <3>3, <3>5, Constants, ComeKeepsProtocol DEF Meeting
    <3>7. staging' = staging /\ unremoved' = unremoved /\ destination' = destination /\ error' = error /\ pc[0] = "reserving" /\ Mine = Absent /\ ~Came(session[0], "verdict", 0)
      <4>1. staging' = staging /\ unremoved' = unremoved /\ destination' = destination /\ error' = error
        BY <3>1, <1>2, <2>2, Constants
           DEF ReserveFails, files, TypeOK, RanksOK
      <4>2. pc[0] = "reserving" /\ Mine = Absent /\ ~Came(session[0], "verdict", 0)
        BY <3>1, <1>2, <2>2, Constants, MetMeans
           DEF ReserveFails, Protocol, LabelsOK, LabelsFor, StagingOK,
               ErrorOK, MeetingsOK, Came, Mine, Met, Refused, At, Meeting
      <4> QED BY <4>1, <4>2
    <3>8. faults' \in 0 .. MaxFaults
      BY <1>2, <2>2, MeetingsAssumption
         DEF ReserveFails, MayFail, TypeOK, RanksOK
    <3>9. TypeOK'
      BY <3>1, <3>3, <3>4, <3>7, <3>8, <1>2, <2>2, Constants
         DEF TypeOK, RanksOK, within, Mine
    <3>10. ErrorOK'
      BY <3>1, <3>3, <3>4, <3>7, <1>2, <2>2, Constants, <3>6, StaysSaid
         DEF ErrorOK, Meeting
    <3>11. DestinationOK'
      BY <3>1, <3>3, <3>4, <3>7, <1>2, <2>2, Constants
         DEF DestinationOK, Came, Writers, WholeOf, Mine, Before, KindOf,
             Meeting, within
    <3>12. StagingOK'
      BY <3>1, <3>3, <3>4, <3>7, <1>2, <2>2, Constants, <3>6, RootKeepsStaging
         DEF StagingFits, Came, Mine, within, Meeting
    <3> QED BY <3>6, <3>9, <3>10, <3>11, <3>12
  <2> QED BY <2>1, <2>2
<1>3. ASSUME WriteAlone PROVE IInv'
  <2>0. PICK parts \in {{}, {0}}, fails \in BOOLEAN :
           /\ MayFail("write", fails)
           /\ Stage(parts)
           /\ error' = [error EXCEPT ![0] = fails]
           /\ Goto(0, IF fails THEN "cleaning" ELSE "validating")
    BY <1>3 DEF WriteAlone
  <2>1. CASE fails
    <3>1. pc[0] # "ended" /\ session[0] \in Session /\ outcome[session[0]][0] = "none"
          /\ (destination.by # Before => destination.by \in Session)
      BY <1>3, <2>0, <2>1, Constants
         DEF WriteAlone, Protocol, SessionsOK, Meeting, TypeOK, Before
    <3>2. MayMove(0, "cleaning")
      BY <3>1, <1>3, <2>0, <2>1, Constants, MetMeans
         DEF WriteAlone, MayMove, TypeOK, Protocol, SessionsOK, LabelsOK,
             LabelsFor, MeetingsOK, GatesOK, OutcomesOK, ErrorOK,
             DestinationOK, StagingOK, Came, AtIn, Stage, Met, Kind, MayFail,
             Meeting, Place
    <3>3. Goto(0, "cleaning") /\ UNCHANGED <<within, came, outcome>>
      BY <1>3, <2>0, <2>1 DEF WriteAlone
    <3>4. /\ pc'[0] = "cleaning" /\ \A q \in Rank : q # 0 => pc'[q] = pc[q]
          /\ pc' \in [Rank -> {"ended"} \cup Place \cup Meeting]
      BY <3>1, <3>3, <1>3, <2>0, <2>1, Constants, MoveEffect DEF Place
    <3>5. LocalFiles
      BY <3>1, <1>3, <2>0, <2>1, Constants
         DEF WriteAlone, LocalFiles, Stage, TypeOK, RanksOK
    <3>6. Local(0) /\ Protocol'
      BY <3>1, <3>2, <3>3, <3>5, Constants, MoveKeepsProtocol DEF Place
    <3>7. staging'[session[0]] = parts /\ (\A s \in Session : s # session[0] => staging'[s] = staging[s]) /\ unremoved' = unremoved /\ destination' = destination /\ error'[0] = fails /\ pc[0] = "staging" /\ ~Came(session[0], "reserve", 0) /\ ~Came(session[0], "verdict", 0)
      <4>1. staging'[session[0]] = parts /\ (\A s \in Session : s # session[0] => staging'[s] = staging[s]) /\ unremoved' = unremoved /\ destination' = destination /\ error'[0] = fails
        BY <3>1, <1>3, <2>0, <2>1, Constants
           DEF WriteAlone, Stage, TypeOK, RanksOK
      <4>2. pc[0] = "staging" /\ ~Came(session[0], "reserve", 0) /\ ~Came(session[0], "verdict", 0)
        BY <3>1, <1>3, <2>0, <2>1, Constants, MetMeans
           DEF WriteAlone, Protocol, LabelsOK, LabelsFor, StagingOK, ErrorOK,
               MeetingsOK, Came, Mine, Met, Refused, At, Meeting
      <4> QED BY <4>1, <4>2
    <3>8. faults' \in 0 .. MaxFaults
      BY <1>3, <2>0, <2>1, MeetingsAssumption DEF MayFail, TypeOK, RanksOK
    <3>9. TypeOK'
      BY <3>1, <3>3, <3>4, <3>7, <3>8, <1>3, <2>0, <2>1, Constants
         DEF Stage, TypeOK, RanksOK, within
    <3>10. ErrorOK'
      BY <3>1, <3>3, <3>4, <3>7, <1>3, <2>0, <2>1, Constants, <3>6, StaysSaid
         DEF ErrorOK, Meeting
    <3>11. DestinationOK'
      BY <3>1, <3>3, <3>4, <3>7, <1>3, <2>0, <2>1, Constants
         DEF DestinationOK, Writers, WholeOf, Mine, Before, Meeting, within
    <3>12. StagingOK'
      BY <3>1, <3>3, <3>4, <3>7, <1>3, <2>0, <2>1, Constants, <3>6,
         RootKeepsStaging DEF StagingFits, Came, Mine, within, Meeting
    <3> QED BY <3>6, <3>9, <3>10, <3>11, <3>12
  <2>2. CASE ~fails
    <3>1. pc[0] # "ended" /\ session[0] \in Session /\ outcome[session[0]][0] = "none"
          /\ (destination.by # Before => destination.by \in Session)
      BY <1>3, <2>0, <2>2, Constants
         DEF WriteAlone, Protocol, SessionsOK, Meeting, TypeOK, Before
    <3>2. MayMove(0, "validating")
      BY <3>1, <1>3, <2>0, <2>2, Constants, MetMeans
         DEF WriteAlone, MayMove, TypeOK, Protocol, SessionsOK, LabelsOK,
             LabelsFor, MeetingsOK, GatesOK, OutcomesOK, ErrorOK,
             DestinationOK, StagingOK, Came, AtIn, Stage, Met, Kind, MayFail,
             Meeting, Place
    <3>3. Goto(0, "validating") /\ UNCHANGED <<within, came, outcome>>
      BY <1>3, <2>0, <2>2 DEF WriteAlone
    <3>4. /\ pc'[0] = "validating" /\ \A q \in Rank : q # 0 => pc'[q] = pc[q]
          /\ pc' \in [Rank -> {"ended"} \cup Place \cup Meeting]
      BY <3>1, <3>3, <1>3, <2>0, <2>2, Constants, MoveEffect DEF Place
    <3>5. LocalFiles
      BY <3>1, <1>3, <2>0, <2>2, Constants
         DEF WriteAlone, LocalFiles, Stage, TypeOK, RanksOK
    <3>6. Local(0) /\ Protocol'
      BY <3>1, <3>2, <3>3, <3>5, Constants, MoveKeepsProtocol DEF Place
    <3>7. staging'[session[0]] = parts /\ (\A s \in Session : s # session[0] => staging'[s] = staging[s]) /\ unremoved' = unremoved /\ destination' = destination /\ error'[0] = fails /\ pc[0] = "staging" /\ ~Came(session[0], "reserve", 0) /\ ~Came(session[0], "verdict", 0)
      <4>1. staging'[session[0]] = parts /\ (\A s \in Session : s # session[0] => staging'[s] = staging[s]) /\ unremoved' = unremoved /\ destination' = destination /\ error'[0] = fails
        BY <3>1, <1>3, <2>0, <2>2, Constants
           DEF WriteAlone, Stage, TypeOK, RanksOK
      <4>2. pc[0] = "staging" /\ ~Came(session[0], "reserve", 0) /\ ~Came(session[0], "verdict", 0)
        BY <3>1, <1>3, <2>0, <2>2, Constants, MetMeans
           DEF WriteAlone, Protocol, LabelsOK, LabelsFor, StagingOK, ErrorOK,
               MeetingsOK, Came, Mine, Met, Refused, At, Meeting
      <4> QED BY <4>1, <4>2
    <3>8. faults' \in 0 .. MaxFaults
      BY <1>3, <2>0, <2>2, MeetingsAssumption DEF MayFail, TypeOK, RanksOK
    <3>9. TypeOK'
      BY <3>1, <3>3, <3>4, <3>7, <3>8, <1>3, <2>0, <2>2, Constants
         DEF Stage, TypeOK, RanksOK, within
    <3>10. ErrorOK'
      BY <3>1, <3>3, <3>4, <3>7, <1>3, <2>0, <2>2, Constants, <3>6, StaysSaid
         DEF ErrorOK, Meeting
    <3>11. DestinationOK'
      BY <3>1, <3>3, <3>4, <3>7, <1>3, <2>0, <2>2, Constants
         DEF DestinationOK, Writers, WholeOf, Mine, Before, Meeting, within
    <3>12. StagingOK'
      BY <3>1, <3>3, <3>4, <3>7, <1>3, <2>0, <2>2, Constants, <3>6,
         RootKeepsStaging DEF StagingFits, Came, Mine, within, Meeting
    <3> QED BY <3>6, <3>9, <3>10, <3>11, <3>12
  <2> QED BY <2>1, <2>2
<1>4. ASSUME Validate PROVE IInv'
  <2>0. PICK refuse \in BOOLEAN, fails \in BOOLEAN :
           /\ MayFail("validate", fails)
           /\ refuse = (fails \/ ~WholeOf(session[0], Mine))
           /\ error' = [error EXCEPT ![0] = refuse]
           /\ Move(0, IF refuse THEN "cleaning" ELSE "replacing")
    BY <1>4 DEF Validate
  <2>1. CASE refuse
    <3>1. pc[0] # "ended" /\ session[0] \in Session /\ outcome[session[0]][0] = "none"
          /\ (destination.by # Before => destination.by \in Session)
      BY <1>4, <2>0, <2>1, Constants
         DEF Validate, Protocol, SessionsOK, Meeting, TypeOK, Before
    <3>2. MayMove(0, "cleaning")
      BY <3>1, <1>4, <2>0, <2>1, Constants, MetMeans
         DEF Validate, MayMove, TypeOK, Protocol, SessionsOK, LabelsOK,
             LabelsFor, MeetingsOK, GatesOK, OutcomesOK, ErrorOK,
             DestinationOK, StagingOK, Came, AtIn, Met, Kind, MayFail, Move,
             Meeting, Place
    <3>3. Goto(0, "cleaning") /\ UNCHANGED <<within, came, outcome>>
      BY <1>4, <2>0, <2>1 DEF Validate, Move
    <3>4. /\ pc'[0] = "cleaning" /\ \A q \in Rank : q # 0 => pc'[q] = pc[q]
          /\ pc' \in [Rank -> {"ended"} \cup Place \cup Meeting]
      BY <3>1, <3>3, <1>4, <2>0, <2>1, Constants, MoveEffect DEF Place
    <3>5. LocalFiles
      BY <3>1, <1>4, <2>0, <2>1, Constants
         DEF Validate, LocalFiles, files, TypeOK, RanksOK, Mine
    <3>6. Local(0) /\ Protocol'
      BY <3>1, <3>2, <3>3, <3>5, Constants, MoveKeepsProtocol DEF Place
    <3>7. staging' = staging /\ unremoved' = unremoved /\ destination' = destination /\ error'[0] = refuse /\ pc[0] = "validating" /\ (~refuse => WholeOf(session[0], Mine)) /\ ~Came(session[0], "verdict", 0)
      <4>1. staging' = staging /\ unremoved' = unremoved /\ destination' = destination /\ error'[0] = refuse
        BY <3>1, <1>4, <2>0, <2>1, Constants
           DEF Validate, files, TypeOK, RanksOK
      <4>2. pc[0] = "validating" /\ (~refuse => WholeOf(session[0], Mine)) /\ ~Came(session[0], "verdict", 0)
        BY <3>1, <1>4, <2>0, <2>1, Constants, MetMeans
           DEF Validate, Protocol, LabelsOK, LabelsFor, StagingOK, ErrorOK,
               MeetingsOK, Came, Mine, Met, Refused, At, Meeting
      <4> QED BY <4>1, <4>2
    <3>8. faults' \in 0 .. MaxFaults
      BY <1>4, <2>0, <2>1, MeetingsAssumption DEF MayFail, TypeOK, RanksOK
    <3>9. TypeOK'
      BY <3>1, <3>3, <3>4, <3>7, <3>8, <1>4, <2>0, <2>1, Constants
         DEF TypeOK, RanksOK, within, Mine
    <3>10. ErrorOK'
      BY <3>1, <3>3, <3>4, <3>7, <1>4, <2>0, <2>1, Constants, <3>6, StaysSaid
         DEF ErrorOK, Meeting
    <3>11. DestinationOK'
      BY <3>1, <3>3, <3>4, <3>7, <1>4, <2>0, <2>1, Constants
         DEF DestinationOK, Writers, WholeOf, Mine, Before, Meeting, within
    <3>12. StagingOK'
      BY <3>1, <3>3, <3>4, <3>7, <1>4, <2>0, <2>1, Constants, <3>6,
         RootKeepsStaging DEF StagingOK, Came, Mine, within, Meeting
    <3> QED BY <3>6, <3>9, <3>10, <3>11, <3>12
  <2>2. CASE ~refuse
    <3>1. pc[0] # "ended" /\ session[0] \in Session /\ outcome[session[0]][0] = "none"
          /\ (destination.by # Before => destination.by \in Session)
      BY <1>4, <2>0, <2>2, Constants
         DEF Validate, Protocol, SessionsOK, Meeting, TypeOK, Before
    <3>2. MayMove(0, "replacing")
      BY <3>1, <1>4, <2>0, <2>2, Constants, MetMeans
         DEF Validate, MayMove, TypeOK, Protocol, SessionsOK, LabelsOK,
             LabelsFor, MeetingsOK, GatesOK, OutcomesOK, ErrorOK,
             DestinationOK, StagingOK, Came, AtIn, Met, Kind, MayFail, Move,
             Meeting, Place
    <3>3. Goto(0, "replacing") /\ UNCHANGED <<within, came, outcome>>
      BY <1>4, <2>0, <2>2 DEF Validate, Move
    <3>4. /\ pc'[0] = "replacing" /\ \A q \in Rank : q # 0 => pc'[q] = pc[q]
          /\ pc' \in [Rank -> {"ended"} \cup Place \cup Meeting]
      BY <3>1, <3>3, <1>4, <2>0, <2>2, Constants, MoveEffect DEF Place
    <3>5. LocalFiles
      BY <3>1, <1>4, <2>0, <2>2, Constants
         DEF Validate, LocalFiles, files, TypeOK, RanksOK, Mine
    <3>6. Local(0) /\ Protocol'
      BY <3>1, <3>2, <3>3, <3>5, Constants, MoveKeepsProtocol DEF Place
    <3>7. staging' = staging /\ unremoved' = unremoved /\ destination' = destination /\ error'[0] = refuse /\ pc[0] = "validating" /\ (~refuse => WholeOf(session[0], Mine)) /\ ~Came(session[0], "verdict", 0)
      <4>1. staging' = staging /\ unremoved' = unremoved /\ destination' = destination /\ error'[0] = refuse
        BY <3>1, <1>4, <2>0, <2>2, Constants
           DEF Validate, files, TypeOK, RanksOK
      <4>2. pc[0] = "validating" /\ (~refuse => WholeOf(session[0], Mine)) /\ ~Came(session[0], "verdict", 0)
        BY <3>1, <1>4, <2>0, <2>2, Constants, MetMeans
           DEF Validate, Protocol, LabelsOK, LabelsFor, StagingOK, ErrorOK,
               MeetingsOK, Came, Mine, Met, Refused, At, Meeting
      <4> QED BY <4>1, <4>2
    <3>8. faults' \in 0 .. MaxFaults
      BY <1>4, <2>0, <2>2, MeetingsAssumption DEF MayFail, TypeOK, RanksOK
    <3>9. TypeOK'
      BY <3>1, <3>3, <3>4, <3>7, <3>8, <1>4, <2>0, <2>2, Constants
         DEF TypeOK, RanksOK, within, Mine
    <3>10. ErrorOK'
      BY <3>1, <3>3, <3>4, <3>7, <1>4, <2>0, <2>2, Constants, <3>6, StaysSaid
         DEF ErrorOK, Meeting
    <3>11. DestinationOK'
      BY <3>1, <3>3, <3>4, <3>7, <1>4, <2>0, <2>2, Constants
         DEF DestinationOK, Writers, WholeOf, Mine, Before, Meeting, within
    <3>12. StagingOK'
      BY <3>1, <3>3, <3>4, <3>7, <1>4, <2>0, <2>2, Constants, <3>6,
         RootKeepsStaging DEF StagingOK, Came, Mine, within, Meeting
    <3> QED BY <3>6, <3>9, <3>10, <3>11, <3>12
  <2> QED BY <2>1, <2>2
<1>5. ASSUME Replace PROVE IInv'
  <2>1. pc[0] # "ended" /\ session[0] \in Session /\ outcome[session[0]][0] = "none"
        /\ (destination.by # Before => destination.by \in Session)
    BY <1>5, Constants
       DEF Replace, Protocol, SessionsOK, Meeting, TypeOK, Before
  <2>2. MayCome(0, "verdict", IF FALSE THEN "failed" ELSE "well")
    BY <2>1, <1>5, Constants, MetMeans
       DEF Replace, MayCome, TypeOK, Protocol, SessionsOK, LabelsOK,
           LabelsFor, MeetingsOK, GatesOK, OutcomesOK, ErrorOK, DestinationOK,
           StagingOK, Came, AtIn, Stage, Met, Kind, Meeting, Place
  <2>3. Come(0, "verdict", FALSE) /\ UNCHANGED <<within, error, outcome>>
    BY <1>5 DEF Replace, Come, Stage
  <2>4. /\ pc'[0] = "verdict" /\ \A q \in Rank : q # 0 => pc'[q] = pc[q]
        /\ came'[session[0]]["verdict"][0] = "well"
        /\ \A t \in Session, n \in Meeting, q \in Rank :
             t # session[0] \/ n # "verdict" \/ q # 0 => came'[t][n][q] = came[t][n][q]
        /\ pc' \in [Rank -> {"ended"} \cup Place \cup Meeting]
        /\ came' \in [Session -> [Meeting -> [Rank -> {"no", "well", "failed"}]]]
    BY <2>1, <2>3, <1>5, Constants, ComeEffect DEF Come, Meeting, Place
  <2>5. LocalFiles
    BY <2>1, <1>5, Constants
       DEF Replace, LocalFiles, Stage, TypeOK, RanksOK, Mine
  <2>6. Local(0) /\ Protocol'
    BY <2>1, <2>2, <2>3, <2>5, Constants, ComeKeepsProtocol DEF Meeting
  <2>7. staging'[session[0]] = Absent /\ (\A s \in Session : s # session[0] => staging'[s] = staging[s]) /\ unremoved' = unremoved /\ destination' = [by |-> session[0], parts |-> Mine] /\ error' = error /\ pc[0] = "replacing" /\ WholeOf(session[0], Mine) /\ ~Came(session[0], "verdict", 0)
    <3>1. staging'[session[0]] = Absent /\ (\A s \in Session : s # session[0] => staging'[s] = staging[s]) /\ unremoved' = unremoved /\ destination' = [by |-> session[0], parts |-> Mine] /\ error' = error
      BY <2>1, <1>5, Constants DEF Replace, Stage, TypeOK, RanksOK
    <3>2. pc[0] = "replacing" /\ WholeOf(session[0], Mine) /\ ~Came(session[0], "verdict", 0)
      BY <2>1, <1>5, Constants, MetMeans
         DEF Replace, Protocol, LabelsOK, LabelsFor, StagingOK, ErrorOK,
             MeetingsOK, DestinationOK, Came, Mine, Met, Refused, At, Meeting
    <3> QED BY <3>1, <3>2
  <2>8. faults' \in 0 .. MaxFaults
    BY <1>5, MeetingsAssumption DEF Replace, TypeOK, RanksOK
  <2>9. TypeOK'
    BY <2>1, <2>3, <2>4, <2>7, <2>8, <1>5, Constants
       DEF Replace, Stage, TypeOK, RanksOK, within, Mine, WholeOf, Writers
  <2>10. ErrorOK'
    BY <2>1, <2>3, <2>4, <2>7, <1>5, Constants, <2>6, StaysSaid
       DEF ErrorOK, Meeting
  <2>11. DestinationOK'
    BY <2>1, <2>3, <2>4, <2>7, <1>5, Constants
       DEF DestinationOK, Writers, WholeOf, Mine, Before, Meeting, within
  <2>12. StagingOK'
    BY <2>1, <2>3, <2>4, <2>7, <1>5, Constants, <2>6, RootKeepsStaging
       DEF StagingFits, Came, Mine, within, Meeting
  <2> QED BY <2>6, <2>9, <2>10, <2>11, <2>12
<1>6. ASSUME ReplaceFails PROVE IInv'
  <2>1. pc[0] # "ended" /\ session[0] \in Session /\ outcome[session[0]][0] = "none"
        /\ (destination.by # Before => destination.by \in Session)
    BY <1>6, Constants
       DEF ReplaceFails, Protocol, SessionsOK, Meeting, TypeOK, Before
  <2>2. MayMove(0, "cleaning")
    BY <2>1, <1>6, Constants, MetMeans
       DEF ReplaceFails, MayMove, TypeOK, Protocol, SessionsOK, LabelsOK,
           LabelsFor, MeetingsOK, GatesOK, OutcomesOK, ErrorOK, DestinationOK,
           StagingOK, Came, AtIn, Met, Kind, MayFail, Move, Meeting, Place
  <2>3. Goto(0, "cleaning") /\ UNCHANGED <<within, came, outcome>>
    BY <1>6 DEF ReplaceFails, Move
  <2>4. /\ pc'[0] = "cleaning" /\ \A q \in Rank : q # 0 => pc'[q] = pc[q]
        /\ pc' \in [Rank -> {"ended"} \cup Place \cup Meeting]
    BY <2>1, <2>3, <1>6, Constants, MoveEffect DEF Place
  <2>5. LocalFiles
    BY <2>1, <1>6, Constants
       DEF ReplaceFails, LocalFiles, files, TypeOK, RanksOK
  <2>6. Local(0) /\ Protocol'
    BY <2>1, <2>2, <2>3, <2>5, Constants, MoveKeepsProtocol DEF Place
  <2>7. staging' = staging /\ unremoved' = unremoved /\ destination' = destination /\ error'[0] = TRUE /\ pc[0] = "replacing" /\ ~Came(session[0], "verdict", 0)
    <3>1. staging' = staging /\ unremoved' = unremoved /\ destination' = destination /\ error'[0] = TRUE
      BY <2>1, <1>6, Constants DEF ReplaceFails, files, TypeOK, RanksOK
    <3>2. pc[0] = "replacing" /\ ~Came(session[0], "verdict", 0)
      BY <2>1, <1>6, Constants, MetMeans
         DEF ReplaceFails, Protocol, LabelsOK, LabelsFor, StagingOK, ErrorOK,
             MeetingsOK, Came, Mine, Met, Refused, At, Meeting
    <3> QED BY <3>1, <3>2
  <2>8. faults' \in 0 .. MaxFaults
    BY <1>6, MeetingsAssumption DEF ReplaceFails, MayFail, TypeOK, RanksOK
  <2>9. TypeOK'
    BY <2>1, <2>3, <2>4, <2>7, <2>8, <1>6, Constants
       DEF ReplaceFails, TypeOK, RanksOK, within
  <2>10. ErrorOK'
    BY <2>1, <2>3, <2>4, <2>7, <1>6, Constants, <2>6, StaysSaid
       DEF ErrorOK, Meeting
  <2>11. DestinationOK'
    BY <2>1, <2>3, <2>4, <2>7, <1>6, Constants
       DEF DestinationOK, Writers, WholeOf, Mine, Before, Meeting, within
  <2>12. StagingOK'
    BY <2>1, <2>3, <2>4, <2>7, <1>6, Constants, <2>6, RootKeepsStaging
       DEF StagingOK, Came, Mine, within, Meeting
  <2> QED BY <2>6, <2>9, <2>10, <2>11, <2>12
<1>7. ASSUME CleanUp PROVE IInv'
  <2>1. CASE error[0]
    <3>1. pc[0] # "ended" /\ session[0] \in Session /\ outcome[session[0]][0] = "none"
          /\ (destination.by # Before => destination.by \in Session)
      BY <1>7, <2>1, Constants
         DEF CleanUp, Protocol, SessionsOK, Meeting, TypeOK, Before
    <3>2. MayCome(0, "verdict", IF TRUE THEN "failed" ELSE "well")
      BY <3>1, <1>7, <2>1, Constants, MetMeans
         DEF CleanUp, MayCome, TypeOK, Protocol, SessionsOK, LabelsOK,
             LabelsFor, MeetingsOK, GatesOK, OutcomesOK, ErrorOK,
             DestinationOK, StagingOK, Came, AtIn, Stage, Met, Cleaned, Kind,
             Meeting, Place
    <3>3. Come(0, "verdict", TRUE) /\ UNCHANGED <<within, error, outcome>>
      BY <1>7, <2>1 DEF CleanUp, Cleaned, Come, Stage
    <3>4. /\ pc'[0] = "verdict" /\ \A q \in Rank : q # 0 => pc'[q] = pc[q]
          /\ came'[session[0]]["verdict"][0] = "failed"
          /\ \A t \in Session, n \in Meeting, q \in Rank :
               t # session[0] \/ n # "verdict" \/ q # 0 => came'[t][n][q] = came[t][n][q]
          /\ pc' \in [Rank -> {"ended"} \cup Place \cup Meeting]
          /\ came' \in [Session -> [Meeting -> [Rank -> {"no", "well", "failed"}]]]
      BY <3>1, <3>3, <1>7, <2>1, Constants, ComeEffect
         DEF Come, Meeting, Place
    <3>5. LocalFiles
      BY <3>1, <1>7, <2>1, Constants
         DEF CleanUp, LocalFiles, Stage, TypeOK, RanksOK
    <3>6. Local(0) /\ Protocol'
      BY <3>1, <3>2, <3>3, <3>5, Constants, ComeKeepsProtocol DEF Meeting
    <3>7. staging'[session[0]] = Absent /\ (\A s \in Session : s # session[0] => staging'[s] = staging[s]) /\ unremoved' = unremoved /\ destination' = destination /\ error' = error /\ pc[0] = "cleaning" /\ ~Came(session[0], "verdict", 0)
      <4>1. staging'[session[0]] = Absent /\ (\A s \in Session : s # session[0] => staging'[s] = staging[s]) /\ unremoved' = unremoved /\ destination' = destination /\ error' = error
        BY <3>1, <1>7, <2>1, Constants DEF CleanUp, Stage, TypeOK, RanksOK
      <4>2. pc[0] = "cleaning" /\ ~Came(session[0], "verdict", 0)
        BY <3>1, <1>7, <2>1, Constants, MetMeans
           DEF CleanUp, Protocol, LabelsOK, LabelsFor, StagingOK, ErrorOK,
               MeetingsOK, Came, Mine, Met, Refused, At, Meeting
      <4> QED BY <4>1, <4>2
    <3>8. faults' \in 0 .. MaxFaults
      BY <1>7, <2>1, MeetingsAssumption DEF CleanUp, TypeOK, RanksOK
    <3>9. TypeOK'
      BY <3>1, <3>3, <3>4, <3>7, <3>8, <1>7, <2>1, Constants
         DEF CleanUp, Stage, TypeOK, RanksOK, within
    <3>10. ErrorOK'
      BY <3>1, <3>3, <3>4, <3>7, <1>7, <2>1, Constants, <3>6, StaysSaid
         DEF ErrorOK, Meeting
    <3>11. DestinationOK'
      BY <3>1, <3>3, <3>4, <3>7, <1>7, <2>1, Constants, SMTT(60)
         DEF DestinationOK, Came, Writers, WholeOf, Mine, Before, Meeting,
             within
    <3>12. StagingOK'
      BY <3>1, <3>3, <3>4, <3>7, <1>7, <2>1, Constants, <3>6, RootKeepsStaging
         DEF StagingFits, Came, Mine, within, Meeting
    <3> QED BY <3>6, <3>9, <3>10, <3>11, <3>12
  <2>2. CASE ~error[0]
    <3>1. pc[0] # "ended" /\ session[0] \in Session /\ outcome[session[0]][0] = "none"
          /\ (destination.by # Before => destination.by \in Session)
      BY <1>7, <2>2, Constants
         DEF CleanUp, Protocol, SessionsOK, Meeting, TypeOK, Before
    <3>2. MayEnd(0, "raised")
      BY <3>1, <1>7, <2>2, Constants, MetMeans
         DEF CleanUp, MayEnd, TypeOK, Protocol, SessionsOK, LabelsOK,
             LabelsFor, MeetingsOK, GatesOK, OutcomesOK, ErrorOK,
             DestinationOK, StagingOK, Came, AtIn, Stage, Met, Cleaned, Kind,
             Meeting, Place
    <3>3. End(0, "raised") /\ UNCHANGED <<within, error>>
      BY <1>7, <2>2 DEF CleanUp, Cleaned, Come, Stage
    <3>4. /\ pc'[0] = "ended" /\ \A q \in Rank : q # 0 => pc'[q] = pc[q]
          /\ outcome'[session[0]][0] = "raised" /\ came' = came
          /\ \A t \in Session, q \in Rank :
               t # session[0] \/ q # 0 => outcome'[t][q] = outcome[t][q]
          /\ pc' \in [Rank -> {"ended"} \cup Place \cup Meeting]
          /\ outcome' \in [Session -> [Rank -> {"none", "ok", "raised"}]]
      BY <3>1, <3>3, <1>7, <2>2, Constants, EndEffect
    <3>5. LocalFiles
      BY <3>1, <1>7, <2>2, Constants
         DEF CleanUp, LocalFiles, Stage, TypeOK, RanksOK
    <3>6. Local(0) /\ Protocol'
      BY <3>1, <3>2, <3>3, <3>5, Constants, EndKeepsProtocol
    <3>7. staging'[session[0]] = Absent /\ (\A s \in Session : s # session[0] => staging'[s] = staging[s]) /\ unremoved' = unremoved /\ destination' = destination /\ error' = error /\ pc[0] = "cleaning" /\ ~Came(session[0], "verdict", 0)
      <4>1. staging'[session[0]] = Absent /\ (\A s \in Session : s # session[0] => staging'[s] = staging[s]) /\ unremoved' = unremoved /\ destination' = destination /\ error' = error
        BY <3>1, <1>7, <2>2, Constants DEF CleanUp, Stage, TypeOK, RanksOK
      <4>2. pc[0] = "cleaning" /\ ~Came(session[0], "verdict", 0)
        BY <3>1, <1>7, <2>2, Constants, MetMeans
           DEF CleanUp, Protocol, LabelsOK, LabelsFor, StagingOK, ErrorOK,
               MeetingsOK, Came, Mine, Met, Refused, At, Meeting
      <4> QED BY <4>1, <4>2
    <3>8. faults' \in 0 .. MaxFaults
      BY <1>7, <2>2, MeetingsAssumption DEF CleanUp, TypeOK, RanksOK
    <3>9. TypeOK'
      BY <3>1, <3>3, <3>4, <3>7, <3>8, <1>7, <2>2, Constants
         DEF CleanUp, Stage, TypeOK, RanksOK, within
    <3>10. ErrorOK'
      BY <3>1, <3>3, <3>4, <3>7, <1>7, <2>2, Constants, <3>6, StaysSaid
         DEF ErrorOK, Meeting
    <3>11. DestinationOK'
      BY <3>1, <3>3, <3>4, <3>7, <1>7, <2>2, Constants
         DEF DestinationOK, Writers, WholeOf, Mine, Before, Meeting, within
    <3>12. StagingOK'
      BY <3>1, <3>3, <3>4, <3>7, <1>7, <2>2, Constants, <3>6, RootKeepsStaging
         DEF StagingFits, Came, Mine, within, Meeting
    <3> QED BY <3>6, <3>9, <3>10, <3>11, <3>12
  <2> QED BY <2>1, <2>2
<1>8. ASSUME NEW r \in Rank, Check(r) PROVE IInv'
  <2>0. PICK fails \in BOOLEAN :
           MayFail("preflight", fails) /\ Come(r, "preflight", fails)
    BY <1>8 DEF Check
  <2>1. pc[r] # "ended" /\ session[r] \in Session /\ outcome[session[r]][r] = "none"
        /\ (destination.by # Before => destination.by \in Session)
    BY <1>8, <2>0, Constants
       DEF Check, Protocol, SessionsOK, Meeting, TypeOK, Before
  <2>2. MayCome(r, "preflight", IF fails THEN "failed" ELSE "well")
    BY <2>1, <1>8, <2>0, Constants, MetMeans
       DEF Check, MayCome, TypeOK, Protocol, SessionsOK, LabelsOK, LabelsFor,
           MeetingsOK, GatesOK, OutcomesOK, ErrorOK, DestinationOK, StagingOK,
           Came, AtIn, Met, Kind, MayFail, Meeting, Place
  <2>3. Come(r, "preflight", fails) /\ UNCHANGED <<within, error, outcome>>
    BY <1>8, <2>0 DEF Check
  <2>4. /\ pc'[r] = "preflight" /\ \A q \in Rank : q # r => pc'[q] = pc[q]
        /\ came'[session[r]]["preflight"][r] = IF fails THEN "failed" ELSE "well"
        /\ \A t \in Session, n \in Meeting, q \in Rank :
             t # session[r] \/ n # "preflight" \/ q # r => came'[t][n][q] = came[t][n][q]
        /\ pc' \in [Rank -> {"ended"} \cup Place \cup Meeting]
        /\ came' \in [Session -> [Meeting -> [Rank -> {"no", "well", "failed"}]]]
    BY <2>1, <2>3, <1>8, <2>0, Constants, ComeEffect DEF Come, Meeting, Place
  <2>5. LocalFiles
    BY <2>1, <1>8, <2>0, Constants
       DEF Check, LocalFiles, files, TypeOK, RanksOK
  <2>6. Local(r) /\ Protocol'
    BY <2>1, <2>2, <2>3, <2>5, Constants, ComeKeepsProtocol DEF Meeting
  <2>7. staging' = staging /\ unremoved' = unremoved /\ destination' = destination /\ error' = error /\ (r = 0 => pc[0] = "checking" /\ Mine = Absent /\ ~Came(session[0], "verdict", 0))
    <3>1. staging' = staging /\ unremoved' = unremoved /\ destination' = destination /\ error' = error
      BY <2>1, <1>8, <2>0, Constants DEF Check, files, TypeOK, RanksOK
    <3>2. (r = 0 => pc[0] = "checking" /\ Mine = Absent /\ ~Came(session[0], "verdict", 0))
      BY <2>1, <1>8, <2>0, Constants, MetMeans
         DEF Check, Protocol, LabelsOK, LabelsFor, StagingOK, ErrorOK,
             MeetingsOK, Came, Mine, Met, Refused, At, Meeting
    <3> QED BY <3>1, <3>2
  <2>8. faults' \in 0 .. MaxFaults
    BY <1>8, <2>0, MeetingsAssumption DEF MayFail, TypeOK, RanksOK
  <2>9. TypeOK'
    BY <2>1, <2>3, <2>4, <2>7, <2>8, <1>8, <2>0, Constants
       DEF TypeOK, RanksOK, within, Mine
  <2>10. CASE r # 0
    BY <2>6, <2>7, <2>9, <2>10, OtherKeepsFiles DEF Protocol, files
  <2>11. CASE r = 0
    <3>1. ErrorOK'
      BY <2>1, <2>3, <2>4, <2>7, <2>11, <1>8, <2>0, Constants, <2>6, StaysSaid
         DEF ErrorOK, Meeting
    <3>2. DestinationOK'
      BY <2>1, <2>3, <2>4, <2>7, <2>11, <1>8, <2>0, Constants
         DEF DestinationOK, Writers, WholeOf, Mine, Before, Meeting, within
    <3>3. StagingOK'
      BY <2>1, <2>3, <2>4, <2>7, <2>11, <1>8, <2>0, Constants, <2>6,
         RootKeepsStaging DEF StagingFits, Came, Mine, within, Meeting
    <3> QED BY <2>6, <2>9, <3>1, <3>2, <3>3
  <2> QED BY <2>10, <2>11
<1>9. ASSUME NEW r \in Rank, Checked(r) PROVE IInv'
  <2>1. CASE Refused(r, "preflight")
    <3>1. pc[r] # "ended" /\ session[r] \in Session /\ outcome[session[r]][r] = "none"
          /\ (destination.by # Before => destination.by \in Session)
      BY <1>9, <2>1, Constants
         DEF Checked, Met, Protocol, SessionsOK, Meeting, TypeOK, Before
    <3>2. MayEnd(r, "raised")
      BY <3>1, <1>9, <2>1, Constants, MetMeans
         DEF Checked, MayEnd, TypeOK, Protocol, SessionsOK, LabelsOK,
             LabelsFor, MeetingsOK, GatesOK, OutcomesOK, ErrorOK,
             DestinationOK, StagingOK, Came, AtIn, Met, Kind, Move, Meeting,
             Place
    <3>3. End(r, "raised") /\ UNCHANGED <<within, error>>
      BY <1>9, <2>1 DEF Checked, Come, Met
    <3>4. /\ pc'[r] = "ended" /\ \A q \in Rank : q # r => pc'[q] = pc[q]
          /\ outcome'[session[r]][r] = "raised" /\ came' = came
          /\ \A t \in Session, q \in Rank :
               t # session[r] \/ q # r => outcome'[t][q] = outcome[t][q]
          /\ pc' \in [Rank -> {"ended"} \cup Place \cup Meeting]
          /\ outcome' \in [Session -> [Rank -> {"none", "ok", "raised"}]]
      BY <3>1, <3>3, <1>9, <2>1, Constants, EndEffect
    <3>5. LocalFiles
      BY <3>1, <1>9, <2>1, Constants
         DEF Checked, LocalFiles, files, TypeOK, RanksOK
    <3>6. Local(r) /\ Protocol'
      BY <3>1, <3>2, <3>3, <3>5, Constants, EndKeepsProtocol
    <3>7. staging' = staging /\ unremoved' = unremoved /\ destination' = destination /\ error' = error /\ (r = 0 => pc[0] = "preflight" /\ Mine = Absent /\ ~Came(session[0], "verdict", 0))
      <4>1. staging' = staging /\ unremoved' = unremoved /\ destination' = destination /\ error' = error
        BY <3>1, <1>9, <2>1, Constants DEF Checked, files, TypeOK, RanksOK
      <4>2. (r = 0 => pc[0] = "preflight" /\ Mine = Absent /\ ~Came(session[0], "verdict", 0))
        BY <3>1, <1>9, <2>1, Constants, MetMeans
           DEF Checked, Protocol, LabelsOK, LabelsFor, StagingOK, ErrorOK,
               MeetingsOK, Came, Mine, Met, Refused, At, Meeting
      <4> QED BY <4>1, <4>2
    <3>8. faults' \in 0 .. MaxFaults
      BY <1>9, <2>1, MeetingsAssumption DEF Checked, TypeOK, RanksOK
    <3>9. TypeOK'
      BY <3>1, <3>3, <3>4, <3>7, <3>8, <1>9, <2>1, Constants
         DEF TypeOK, RanksOK, within, Mine
    <3>10. CASE r # 0
      BY <3>6, <3>7, <3>9, <3>10, OtherKeepsFiles DEF Protocol, files
    <3>11. CASE r = 0
      <4>1. ErrorOK'
        BY <3>1, <3>3, <3>4, <3>7, <3>11, <1>9, <2>1, Constants, <3>6,
           StaysSaid DEF ErrorOK, Meeting
      <4>2. DestinationOK'
        BY <3>1, <3>3, <3>4, <3>7, <3>11, <1>9, <2>1, Constants
           DEF DestinationOK, Writers, WholeOf, Mine, Before, Meeting, within
      <4>3. StagingOK'
        BY <3>1, <3>3, <3>4, <3>7, <3>11, <1>9, <2>1, Constants, <3>6,
           RootKeepsStaging DEF StagingFits, Came, Mine, within, Meeting
      <4> QED BY <3>6, <3>9, <4>1, <4>2, <4>3
    <3> QED BY <3>10, <3>11
  <2>2. CASE ~Refused(r, "preflight") /\ r = 0
    <3>1. pc[0] # "ended" /\ session[0] \in Session /\ outcome[session[0]][0] = "none"
          /\ (destination.by # Before => destination.by \in Session)
      BY <1>9, <2>2, Constants
         DEF Checked, Met, Protocol, SessionsOK, Meeting, TypeOK, Before
    <3>2. MayMove(0, "reserving")
      BY <3>1, <1>9, <2>2, Constants, MetMeans
         DEF Checked, MayMove, TypeOK, Protocol, SessionsOK, LabelsOK,
             LabelsFor, MeetingsOK, GatesOK, OutcomesOK, ErrorOK,
             DestinationOK, StagingOK, Came, AtIn, Met, Kind, Move, Meeting,
             Place
    <3>3. Goto(0, "reserving") /\ UNCHANGED <<within, came, outcome>>
      BY <1>9, <2>2 DEF Checked, Move, Come, Met
    <3>4. /\ pc'[0] = "reserving" /\ \A q \in Rank : q # 0 => pc'[q] = pc[q]
          /\ pc' \in [Rank -> {"ended"} \cup Place \cup Meeting]
      BY <3>1, <3>3, <1>9, <2>2, Constants, MoveEffect DEF Place
    <3>5. LocalFiles
      BY <3>1, <1>9, <2>2, Constants
         DEF Checked, LocalFiles, files, TypeOK, RanksOK
    <3>6. Local(0) /\ Protocol'
      BY <3>1, <3>2, <3>3, <3>5, Constants, MoveKeepsProtocol DEF Place
    <3>7. staging' = staging /\ unremoved' = unremoved /\ destination' = destination /\ error' = error /\ (r = 0 => pc[0] = "preflight" /\ Mine = Absent /\ ~Came(session[0], "verdict", 0))
      <4>1. staging' = staging /\ unremoved' = unremoved /\ destination' = destination /\ error' = error
        BY <3>1, <1>9, <2>2, Constants DEF Checked, files, TypeOK, RanksOK
      <4>2. (r = 0 => pc[0] = "preflight" /\ Mine = Absent /\ ~Came(session[0], "verdict", 0))
        BY <3>1, <1>9, <2>2, Constants, MetMeans
           DEF Checked, Protocol, LabelsOK, LabelsFor, StagingOK, ErrorOK,
               MeetingsOK, Came, Mine, Met, Refused, At, Meeting
      <4> QED BY <4>1, <4>2
    <3>8. faults' \in 0 .. MaxFaults
      BY <1>9, <2>2, MeetingsAssumption DEF Checked, TypeOK, RanksOK
    <3>9. TypeOK'
      BY <3>1, <3>3, <3>4, <3>7, <3>8, <1>9, <2>2, Constants
         DEF TypeOK, RanksOK, within, Mine
    <3>10. ErrorOK'
      BY <3>1, <3>3, <3>4, <3>7, <2>2, <1>9, <2>2, Constants, <3>6, StaysSaid
         DEF ErrorOK, Meeting
    <3>11. DestinationOK'
      BY <3>1, <3>3, <3>4, <3>7, <2>2, <1>9, <2>2, Constants
         DEF DestinationOK, Writers, WholeOf, Mine, Before, Meeting, within
    <3>12. StagingOK'
      BY <3>1, <3>3, <3>4, <3>7, <2>2, <1>9, <2>2, Constants, <3>6,
         RootKeepsStaging DEF StagingFits, Came, Mine, within, Meeting
    <3> QED BY <3>6, <3>9, <3>10, <3>11, <3>12
  <2>3. CASE ~Refused(r, "preflight") /\ r # 0
    <3>1. pc[r] # "ended" /\ session[r] \in Session /\ outcome[session[r]][r] = "none"
          /\ (destination.by # Before => destination.by \in Session)
      BY <1>9, <2>3, Constants
         DEF Checked, Met, Protocol, SessionsOK, Meeting, TypeOK, Before
    <3>2. MayCome(r, "verdict", IF FALSE THEN "failed" ELSE "well")
      BY <3>1, <1>9, <2>3, Constants, MetMeans
         DEF Checked, MayCome, TypeOK, Protocol, SessionsOK, LabelsOK,
             LabelsFor, MeetingsOK, GatesOK, OutcomesOK, ErrorOK,
             DestinationOK, StagingOK, Came, AtIn, Met, Kind, Move, Meeting,
             Place
    <3>3. Come(r, "verdict", FALSE) /\ UNCHANGED <<within, error, outcome>>
      BY <1>9, <2>3 DEF Checked, Move, Come, Met
    <3>4. /\ pc'[r] = "verdict" /\ \A q \in Rank : q # r => pc'[q] = pc[q]
          /\ came'[session[r]]["verdict"][r] = "well"
          /\ \A t \in Session, n \in Meeting, q \in Rank :
               t # session[r] \/ n # "verdict" \/ q # r => came'[t][n][q] = came[t][n][q]
          /\ pc' \in [Rank -> {"ended"} \cup Place \cup Meeting]
          /\ came' \in [Session -> [Meeting -> [Rank -> {"no", "well", "failed"}]]]
      BY <3>1, <3>3, <1>9, <2>3, Constants, ComeEffect
         DEF Come, Meeting, Place
    <3>5. LocalFiles
      BY <3>1, <1>9, <2>3, Constants
         DEF Checked, LocalFiles, files, TypeOK, RanksOK
    <3>6. Local(r) /\ Protocol'
      BY <3>1, <3>2, <3>3, <3>5, Constants, ComeKeepsProtocol DEF Meeting
    <3>7. staging' = staging /\ unremoved' = unremoved /\ destination' = destination /\ error' = error /\ (r = 0 => pc[0] = "preflight" /\ Mine = Absent /\ ~Came(session[0], "verdict", 0))
      <4>1. staging' = staging /\ unremoved' = unremoved /\ destination' = destination /\ error' = error
        BY <3>1, <1>9, <2>3, Constants DEF Checked, files, TypeOK, RanksOK
      <4>2. (r = 0 => pc[0] = "preflight" /\ Mine = Absent /\ ~Came(session[0], "verdict", 0))
        BY <3>1, <1>9, <2>3, Constants, MetMeans
           DEF LabelsOK, LabelsFor, StagingOK, ErrorOK, MeetingsOK, Came,
               Mine, Met, Refused, At, Meeting
      <4> QED BY <4>1, <4>2
    <3>8. faults' \in 0 .. MaxFaults
      BY <1>9, <2>3, MeetingsAssumption DEF Checked, TypeOK, RanksOK
    <3>9. TypeOK'
      BY <3>1, <3>3, <3>4, <3>7, <3>8, <1>9, <2>3, Constants
         DEF TypeOK, RanksOK, within, Mine
    <3>10. CASE r # 0
      BY <3>6, <3>7, <3>9, <3>10, OtherKeepsFiles DEF Protocol, files
    <3>11. CASE r = 0
      <4>1. ErrorOK'
        BY <3>1, <3>3, <3>4, <3>7, <3>11, <1>9, <2>3, Constants, <3>6,
           StaysSaid DEF Meeting
      <4>2. DestinationOK'
        BY <3>1, <3>3, <3>4, <3>7, <3>11, <1>9, <2>3, Constants
           DEF Writers, WholeOf, Mine, Before, Meeting, within
      <4>3. StagingOK'
        BY <3>1, <3>3, <3>4, <3>7, <3>11, <1>9, <2>3, Constants, <3>6,
           RootKeepsStaging DEF Came, Mine, within, Meeting
      <4> QED BY <3>6, <3>9, <4>1, <4>2, <4>3
    <3> QED BY <3>10, <3>11
  <2> QED BY <2>1, <2>2, <2>3
<1>10. ASSUME NEW r \in Rank, Reserved(r) PROVE IInv'
  <2>1. CASE Refused(r, "reserve")
    <3>1. pc[r] # "ended" /\ session[r] \in Session /\ outcome[session[r]][r] = "none"
          /\ (destination.by # Before => destination.by \in Session)
      BY <1>10, <2>1, Constants
         DEF Reserved, Met, Protocol, SessionsOK, Meeting, TypeOK, Before
    <3>2. MayEnd(r, "raised")
      BY <3>1, <1>10, <2>1, Constants, MetMeans
         DEF Reserved, MayEnd, TypeOK, Protocol, SessionsOK, LabelsOK,
             LabelsFor, MeetingsOK, GatesOK, OutcomesOK, ErrorOK,
             DestinationOK, StagingOK, Came, AtIn, Met, Kind, Move, Meeting,
             Place
    <3>3. End(r, "raised") /\ UNCHANGED <<within, error>>
      BY <1>10, <2>1 DEF Reserved, Met
    <3>4. /\ pc'[r] = "ended" /\ \A q \in Rank : q # r => pc'[q] = pc[q]
          /\ outcome'[session[r]][r] = "raised" /\ came' = came
          /\ \A t \in Session, q \in Rank :
               t # session[r] \/ q # r => outcome'[t][q] = outcome[t][q]
          /\ pc' \in [Rank -> {"ended"} \cup Place \cup Meeting]
          /\ outcome' \in [Session -> [Rank -> {"none", "ok", "raised"}]]
      BY <3>1, <3>3, <1>10, <2>1, Constants, EndEffect
    <3>5. LocalFiles
      BY <3>1, <1>10, <2>1, Constants
         DEF Reserved, LocalFiles, files, TypeOK, RanksOK
    <3>6. Local(r) /\ Protocol'
      BY <3>1, <3>2, <3>3, <3>5, Constants, EndKeepsProtocol
    <3>7. staging' = staging /\ unremoved' = unremoved /\ destination' = destination /\ error' = error /\ (r = 0 => pc[0] = "reserve" /\ (Refused(0, "reserve") => Mine = Absent) /\ ~Came(session[0], "verdict", 0))
      <4>1. staging' = staging /\ unremoved' = unremoved /\ destination' = destination /\ error' = error
        BY <3>1, <1>10, <2>1, Constants DEF Reserved, files, TypeOK, RanksOK
      <4>2. (r = 0 => pc[0] = "reserve" /\ (Refused(0, "reserve") => Mine = Absent) /\ ~Came(session[0], "verdict", 0))
        BY <3>1, <1>10, <2>1, Constants, MetMeans
           DEF Reserved, Protocol, LabelsOK, LabelsFor, StagingOK, ErrorOK,
               MeetingsOK, Came, Mine, Met, Refused, At, Meeting
      <4> QED BY <4>1, <4>2
    <3>8. faults' \in 0 .. MaxFaults
      BY <1>10, <2>1, MeetingsAssumption DEF Reserved, TypeOK, RanksOK
    <3>9. TypeOK'
      BY <3>1, <3>3, <3>4, <3>7, <3>8, <1>10, <2>1, Constants
         DEF TypeOK, RanksOK, within, Mine
    <3>10. CASE r # 0
      BY <3>6, <3>7, <3>9, <3>10, OtherKeepsFiles DEF Protocol, files
    <3>11. CASE r = 0
      <4>1. ErrorOK'
        BY <3>1, <3>3, <3>4, <3>7, <3>11, <1>10, <2>1, Constants, <3>6,
           StaysSaid DEF ErrorOK, Meeting
      <4>2. DestinationOK'
        BY <3>1, <3>3, <3>4, <3>7, <3>11, <1>10, <2>1, Constants
           DEF DestinationOK, Writers, WholeOf, Mine, Before, Meeting, within
      <4>3. StagingOK'
        BY <3>1, <3>3, <3>4, <3>7, <3>11, <1>10, <2>1, Constants, <3>6,
           RootKeepsStaging DEF StagingFits, Came, Mine, within, Meeting
      <4> QED BY <3>6, <3>9, <4>1, <4>2, <4>3
    <3> QED BY <3>10, <3>11
  <2>2. CASE ~Refused(r, "reserve")
    <3>1. pc[r] # "ended" /\ session[r] \in Session /\ outcome[session[r]][r] = "none"
          /\ (destination.by # Before => destination.by \in Session)
      BY <1>10, <2>2, Constants
         DEF Reserved, Met, Protocol, SessionsOK, Meeting, TypeOK, Before
    <3>2. MayMove(r, "writing")
      BY <3>1, <1>10, <2>2, Constants, MetMeans
         DEF Reserved, MayMove, TypeOK, Protocol, SessionsOK, LabelsOK,
             LabelsFor, MeetingsOK, GatesOK, OutcomesOK, ErrorOK,
             DestinationOK, StagingOK, Came, AtIn, Met, Kind, Move, Meeting,
             Place
    <3>3. Goto(r, "writing") /\ UNCHANGED <<within, came, outcome>> /\ (r # 0 => error' = error)
      BY <1>10, <2>2 DEF Reserved, Move, Met
    <3>4. /\ pc'[r] = "writing" /\ \A q \in Rank : q # r => pc'[q] = pc[q]
          /\ pc' \in [Rank -> {"ended"} \cup Place \cup Meeting]
      BY <3>1, <3>3, <1>10, <2>2, Constants, MoveEffect DEF Place
    <3>5. LocalFiles
      BY <3>1, <1>10, <2>2, Constants
         DEF Reserved, LocalFiles, files, TypeOK, RanksOK
    <3>6. Local(r) /\ Protocol'
      BY <3>1, <3>2, <3>3, <3>5, Constants, MoveKeepsProtocol DEF Place
    <3>7. staging' = staging /\ unremoved' = unremoved /\ destination' = destination /\ error' = error /\ (r = 0 => pc[0] = "reserve" /\ (Refused(0, "reserve") => Mine = Absent) /\ ~Came(session[0], "verdict", 0))
      <4>1. staging' = staging /\ unremoved' = unremoved /\ destination' = destination /\ error' = error
        BY <3>1, <1>10, <2>2, Constants DEF Reserved, files, TypeOK, RanksOK
      <4>2. (r = 0 => pc[0] = "reserve" /\ (Refused(0, "reserve") => Mine = Absent) /\ ~Came(session[0], "verdict", 0))
        BY <3>1, <1>10, <2>2, Constants, MetMeans
           DEF Reserved, Protocol, LabelsOK, LabelsFor, StagingOK, ErrorOK,
               MeetingsOK, Came, Mine, Met, Refused, At, Meeting
      <4> QED BY <4>1, <4>2
    <3>8. faults' \in 0 .. MaxFaults
      BY <1>10, <2>2, MeetingsAssumption DEF Reserved, TypeOK, RanksOK
    <3>9. TypeOK'
      BY <3>1, <3>3, <3>4, <3>7, <3>8, <1>10, <2>2, Constants
         DEF TypeOK, RanksOK, within, Mine
    <3>10. CASE r # 0
      BY <3>6, <3>7, <3>9, <3>10, OtherKeepsFiles DEF Protocol, files
    <3>11. CASE r = 0
      <4>1. ErrorOK'
        BY <3>1, <3>3, <3>4, <3>7, <3>11, <1>10, <2>2, Constants, <3>6,
           StaysSaid DEF ErrorOK, Meeting
      <4>2. DestinationOK'
        BY <3>1, <3>3, <3>4, <3>7, <3>11, <1>10, <2>2, Constants
           DEF DestinationOK, Writers, WholeOf, Mine, Before, Meeting, within
      <4>3. StagingOK'
        BY <3>1, <3>3, <3>4, <3>7, <3>11, <1>10, <2>2, Constants, <3>6,
           RootKeepsStaging DEF StagingOK, Came, Mine, within, Meeting
      <4> QED BY <3>6, <3>9, <4>1, <4>2, <4>3
    <3> QED BY <3>10, <3>11
  <2> QED BY <2>1, <2>2
<1>11. ASSUME NEW r \in Rank, Written(r) PROVE IInv'
  <2>1. CASE ~Refused(r, "write") /\ r = 0
    <3>1. pc[0] # "ended" /\ session[0] \in Session /\ outcome[session[0]][0] = "none"
          /\ (destination.by # Before => destination.by \in Session)
      BY <1>11, <2>1, Constants
         DEF Written, Met, Protocol, SessionsOK, Meeting, TypeOK, Before
    <3>2. MayMove(0, "validating")
      BY <3>1, <1>11, <2>1, Constants, MetMeans
         DEF Written, MayMove, TypeOK, Protocol, SessionsOK, LabelsOK,
             LabelsFor, MeetingsOK, GatesOK, OutcomesOK, ErrorOK,
             DestinationOK, StagingOK, Came, AtIn, Met, Kind, Move, Meeting,
             Place
    <3>3. Goto(0, "validating") /\ UNCHANGED <<within, came, outcome>>
      BY <1>11, <2>1 DEF Written, Move, Come, Met
    <3>4. /\ pc'[0] = "validating" /\ \A q \in Rank : q # 0 => pc'[q] = pc[q]
          /\ pc' \in [Rank -> {"ended"} \cup Place \cup Meeting]
      BY <3>1, <3>3, <1>11, <2>1, Constants, MoveEffect DEF Place
    <3>5. LocalFiles
      BY <3>1, <1>11, <2>1, Constants
         DEF Written, LocalFiles, files, TypeOK, RanksOK
    <3>6. Local(0) /\ Protocol'
      BY <3>1, <3>2, <3>3, <3>5, Constants, MoveKeepsProtocol DEF Place
    <3>7. staging' = staging /\ unremoved' = unremoved /\ destination' = destination /\ error' = error /\ (r = 0 => pc[0] = "write" /\ ~error[0] /\ kind[session[0]] = "collective" /\ (Refused(0, "write") => RefusedIn(session[0], "write")) /\ ~Came(session[0], "verdict", 0))
      <4>1. staging' = staging /\ unremoved' = unremoved /\ destination' = destination /\ error' = error
        BY <3>1, <1>11, <2>1, Constants DEF Written, files, TypeOK, RanksOK
      <4>2. (r = 0 => pc[0] = "write" /\ ~error[0] /\ kind[session[0]] = "collective" /\ (Refused(0, "write") => RefusedIn(session[0], "write")) /\ ~Came(session[0], "verdict", 0))
        BY <3>1, <1>11, <2>1, Constants, MetMeans
           DEF Written, Protocol, LabelsOK, LabelsFor, StagingOK, ErrorOK,
               MeetingsOK, Came, Mine, Met, Refused, At, Meeting
      <4> QED BY <4>1, <4>2
    <3>8. faults' \in 0 .. MaxFaults
      BY <1>11, <2>1, MeetingsAssumption DEF Written, TypeOK, RanksOK
    <3>9. TypeOK'
      BY <3>1, <3>3, <3>4, <3>7, <3>8, <1>11, <2>1, Constants
         DEF TypeOK, RanksOK, within
    <3>10. ErrorOK'
      BY <3>1, <3>3, <3>4, <3>7, <2>1, <1>11, <2>1, Constants, <3>6, StaysSaid
         DEF ErrorOK, Meeting
    <3>11. DestinationOK'
      BY <3>1, <3>3, <3>4, <3>7, <2>1, <1>11, <2>1, Constants
         DEF DestinationOK, Writers, WholeOf, Mine, Before, Meeting, within
    <3>12. StagingOK'
      BY <3>1, <3>3, <3>4, <3>7, <2>1, <1>11, <2>1, Constants, <3>6,
         RootKeepsStaging DEF StagingOK, Came, Mine, within, Meeting
    <3> QED BY <3>6, <3>9, <3>10, <3>11, <3>12
  <2>2. CASE ~Refused(r, "write") /\ r # 0
    <3>1. pc[r] # "ended" /\ session[r] \in Session /\ outcome[session[r]][r] = "none"
          /\ (destination.by # Before => destination.by \in Session)
      BY <1>11, <2>2, Constants
         DEF Written, Met, Protocol, SessionsOK, Meeting, TypeOK, Before
    <3>2. MayCome(r, "verdict", IF FALSE THEN "failed" ELSE "well")
      BY <3>1, <1>11, <2>2, Constants, MetMeans
         DEF Written, MayCome, TypeOK, Protocol, SessionsOK, LabelsOK,
             LabelsFor, MeetingsOK, GatesOK, OutcomesOK, ErrorOK,
             DestinationOK, StagingOK, Came, AtIn, Met, Kind, Move, Meeting,
             Place
    <3>3. Come(r, "verdict", FALSE) /\ UNCHANGED <<within, error, outcome>>
      BY <1>11, <2>2 DEF Written, Move, Come, Met
    <3>4. /\ pc'[r] = "verdict" /\ \A q \in Rank : q # r => pc'[q] = pc[q]
          /\ came'[session[r]]["verdict"][r] = "well"
          /\ \A t \in Session, n \in Meeting, q \in Rank :
               t # session[r] \/ n # "verdict" \/ q # r => came'[t][n][q] = came[t][n][q]
          /\ pc' \in [Rank -> {"ended"} \cup Place \cup Meeting]
          /\ came' \in [Session -> [Meeting -> [Rank -> {"no", "well", "failed"}]]]
      BY <3>1, <3>3, <1>11, <2>2, Constants, ComeEffect
         DEF Come, Meeting, Place
    <3>5. LocalFiles
      BY <3>1, <1>11, <2>2, Constants
         DEF Written, LocalFiles, files, TypeOK, RanksOK
    <3>6. Local(r) /\ Protocol'
      BY <3>1, <3>2, <3>3, <3>5, Constants, ComeKeepsProtocol DEF Meeting
    <3>7. staging' = staging /\ unremoved' = unremoved /\ destination' = destination /\ error' = error /\ (r = 0 => pc[0] = "write" /\ ~error[0] /\ kind[session[0]] = "collective" /\ (Refused(0, "write") => RefusedIn(session[0], "write")) /\ ~Came(session[0], "verdict", 0))
      <4>1. staging' = staging /\ unremoved' = unremoved /\ destination' = destination /\ error' = error
        BY <3>1, <1>11, <2>2, Constants DEF Written, files, TypeOK, RanksOK
      <4>2. (r = 0 => pc[0] = "write" /\ ~error[0] /\ kind[session[0]] = "collective" /\ (Refused(0, "write") => RefusedIn(session[0], "write")) /\ ~Came(session[0], "verdict", 0))
        BY <3>1, <1>11, <2>2, Constants, MetMeans
           DEF LabelsOK, LabelsFor, StagingOK, ErrorOK, MeetingsOK, Came,
               Mine, Met, Refused, At, Meeting
      <4> QED BY <4>1, <4>2
    <3>8. faults' \in 0 .. MaxFaults
      BY <1>11, <2>2, MeetingsAssumption DEF Written, TypeOK, RanksOK
    <3>9. TypeOK'
      BY <3>1, <3>3, <3>4, <3>7, <3>8, <1>11, <2>2, Constants
         DEF TypeOK, RanksOK, within
    <3>10. CASE r # 0
      BY <3>6, <3>7, <3>9, <3>10, OtherKeepsFiles DEF Protocol, files
    <3>11. CASE r = 0
      <4>1. ErrorOK'
        BY <3>1, <3>3, <3>4, <3>7, <3>11, <1>11, <2>2, Constants, <3>6,
           StaysSaid DEF Meeting
      <4>2. DestinationOK'
        BY <3>1, <3>3, <3>4, <3>7, <3>11, <1>11, <2>2, Constants
           DEF Writers, WholeOf, Mine, Before, Meeting, within
      <4>3. StagingOK'
        BY <3>1, <3>3, <3>4, <3>7, <3>11, <1>11, <2>2, Constants, <3>6,
           RootKeepsStaging DEF Came, Mine, within, Meeting
      <4> QED BY <3>6, <3>9, <4>1, <4>2, <4>3
    <3> QED BY <3>10, <3>11
  <2>3. CASE Refused(r, "write") /\ r = 0
    <3>1. pc[0] # "ended" /\ session[0] \in Session /\ outcome[session[0]][0] = "none"
          /\ (destination.by # Before => destination.by \in Session)
      BY <1>11, <2>3, Constants
         DEF Written, Met, Protocol, SessionsOK, Meeting, TypeOK, Before
    <3>2. MayMove(0, "cleaning")
      BY <3>1, <1>11, <2>3, Constants, MetMeans
         DEF Written, MayMove, TypeOK, Protocol, SessionsOK, LabelsOK,
             LabelsFor, MeetingsOK, GatesOK, OutcomesOK, ErrorOK,
             DestinationOK, StagingOK, Came, AtIn, Met, Kind, Move, Meeting,
             Place
    <3>3. Goto(0, "cleaning") /\ UNCHANGED <<within, came, outcome>>
      BY <1>11, <2>3 DEF Written, Move, Come, Met
    <3>4. /\ pc'[0] = "cleaning" /\ \A q \in Rank : q # 0 => pc'[q] = pc[q]
          /\ pc' \in [Rank -> {"ended"} \cup Place \cup Meeting]
      BY <3>1, <3>3, <1>11, <2>3, Constants, MoveEffect DEF Place
    <3>5. LocalFiles
      BY <3>1, <1>11, <2>3, Constants
         DEF Written, LocalFiles, files, TypeOK, RanksOK
    <3>6. Local(0) /\ Protocol'
      BY <3>1, <3>2, <3>3, <3>5, Constants, MoveKeepsProtocol DEF Place
    <3>7. staging' = staging /\ unremoved' = unremoved /\ destination' = destination /\ error' = error /\ (r = 0 => pc[0] = "write" /\ ~error[0] /\ kind[session[0]] = "collective" /\ (Refused(0, "write") => RefusedIn(session[0], "write")) /\ ~Came(session[0], "verdict", 0))
      <4>1. staging' = staging /\ unremoved' = unremoved /\ destination' = destination /\ error' = error
        BY <3>1, <1>11, <2>3, Constants DEF Written, files, TypeOK, RanksOK
      <4>2. (r = 0 => pc[0] = "write" /\ ~error[0] /\ kind[session[0]] = "collective" /\ (Refused(0, "write") => RefusedIn(session[0], "write")) /\ ~Came(session[0], "verdict", 0))
        BY <3>1, <1>11, <2>3, Constants, MetMeans
           DEF Written, Protocol, LabelsOK, LabelsFor, StagingOK, ErrorOK,
               MeetingsOK, Came, Mine, Met, Refused, At, Meeting
      <4> QED BY <4>1, <4>2
    <3>8. faults' \in 0 .. MaxFaults
      BY <1>11, <2>3, MeetingsAssumption DEF Written, TypeOK, RanksOK
    <3>9. TypeOK'
      BY <3>1, <3>3, <3>4, <3>7, <3>8, <1>11, <2>3, Constants
         DEF TypeOK, RanksOK, within
    <3>10. ErrorOK'
      BY <3>1, <3>3, <3>4, <3>7, <2>3, <1>11, <2>3, Constants, <3>6, StaysSaid
         DEF ErrorOK, within, Meeting
    <3>11. DestinationOK'
      BY <3>1, <3>3, <3>4, <3>7, <2>3, <1>11, <2>3, Constants
         DEF DestinationOK, Writers, WholeOf, Mine, Before, Meeting, within
    <3>12. StagingOK'
      BY <3>1, <3>3, <3>4, <3>7, <2>3, <1>11, <2>3, Constants, <3>6,
         RootKeepsStaging DEF StagingOK, Came, Mine, within, Meeting
    <3> QED BY <3>6, <3>9, <3>10, <3>11, <3>12
  <2>4. CASE Refused(r, "write") /\ r # 0
    <3>1. pc[r] # "ended" /\ session[r] \in Session /\ outcome[session[r]][r] = "none"
          /\ (destination.by # Before => destination.by \in Session)
      BY <1>11, <2>4, Constants
         DEF Written, Met, Protocol, SessionsOK, Meeting, TypeOK, Before
    <3>2. MayEnd(r, "raised")
      BY <3>1, <1>11, <2>4, Constants, MetMeans
         DEF Written, MayEnd, TypeOK, Protocol, SessionsOK, LabelsOK,
             LabelsFor, MeetingsOK, GatesOK, OutcomesOK, ErrorOK,
             DestinationOK, StagingOK, Came, AtIn, Met, Kind, Move, Meeting,
             Place
    <3>3. End(r, "raised") /\ UNCHANGED <<within, error>>
      BY <1>11, <2>4 DEF Written, Come, Met
    <3>4. /\ pc'[r] = "ended" /\ \A q \in Rank : q # r => pc'[q] = pc[q]
          /\ outcome'[session[r]][r] = "raised" /\ came' = came
          /\ \A t \in Session, q \in Rank :
               t # session[r] \/ q # r => outcome'[t][q] = outcome[t][q]
          /\ pc' \in [Rank -> {"ended"} \cup Place \cup Meeting]
          /\ outcome' \in [Session -> [Rank -> {"none", "ok", "raised"}]]
      BY <3>1, <3>3, <1>11, <2>4, Constants, EndEffect
    <3>5. LocalFiles
      BY <3>1, <1>11, <2>4, Constants
         DEF Written, LocalFiles, files, TypeOK, RanksOK
    <3>6. Local(r) /\ Protocol'
      BY <3>1, <3>2, <3>3, <3>5, Constants, EndKeepsProtocol
    <3>7. staging' = staging /\ unremoved' = unremoved /\ destination' = destination /\ error' = error /\ (r = 0 => pc[0] = "write" /\ ~error[0] /\ kind[session[0]] = "collective" /\ (Refused(0, "write") => RefusedIn(session[0], "write")) /\ ~Came(session[0], "verdict", 0))
      <4>1. staging' = staging /\ unremoved' = unremoved /\ destination' = destination /\ error' = error
        BY <3>1, <1>11, <2>4, Constants DEF Written, files, TypeOK, RanksOK
      <4>2. (r = 0 => pc[0] = "write" /\ ~error[0] /\ kind[session[0]] = "collective" /\ (Refused(0, "write") => RefusedIn(session[0], "write")) /\ ~Came(session[0], "verdict", 0))
        BY <3>1, <1>11, <2>4, Constants, MetMeans
           DEF LabelsOK, LabelsFor, StagingOK, ErrorOK, MeetingsOK, Came,
               Mine, Met, Refused, At, Meeting
      <4> QED BY <4>1, <4>2
    <3>8. faults' \in 0 .. MaxFaults
      BY <1>11, <2>4, MeetingsAssumption DEF Written, TypeOK, RanksOK
    <3>9. TypeOK'
      BY <3>1, <3>3, <3>4, <3>7, <3>8, <1>11, <2>4, Constants
         DEF TypeOK, RanksOK, within
    <3>10. CASE r # 0
      BY <3>6, <3>7, <3>9, <3>10, OtherKeepsFiles DEF Protocol, files
    <3>11. CASE r = 0
      <4>1. ErrorOK'
        BY <3>1, <3>3, <3>4, <3>7, <3>11, <1>11, <2>4, Constants, <3>6,
           StaysSaid DEF Meeting
      <4>2. DestinationOK'
        BY <3>1, <3>3, <3>4, <3>7, <3>11, <1>11, <2>4, Constants
           DEF Writers, WholeOf, Mine, Before, Meeting, within
      <4>3. StagingOK'
        BY <3>1, <3>3, <3>4, <3>7, <3>11, <1>11, <2>4, Constants, <3>6,
           RootKeepsStaging DEF Came, Mine, within, Meeting
      <4> QED BY <3>6, <3>9, <4>1, <4>2, <4>3
    <3> QED BY <3>10, <3>11
  <2> QED BY <2>1, <2>2, <2>3, <2>4
<1>12. ASSUME NEW r \in Rank, Decided(r) PROVE IInv'
  <2>1. CASE Refused(r, "verdict")
    <3>1. pc[r] # "ended" /\ session[r] \in Session /\ outcome[session[r]][r] = "none"
          /\ (destination.by # Before => destination.by \in Session)
      BY <1>12, <2>1, Constants
         DEF Decided, Met, Protocol, SessionsOK, Meeting, TypeOK, Before
    <3>2. MayEnd(r, "raised")
      BY <3>1, <1>12, <2>1, Constants, MetMeans
         DEF Decided, MayEnd, TypeOK, Protocol, SessionsOK, LabelsOK,
             LabelsFor, MeetingsOK, GatesOK, OutcomesOK, ErrorOK,
             DestinationOK, StagingOK, Came, AtIn, Met, Kind, Meeting, Place
    <3>3. End(r, "raised") /\ UNCHANGED <<within, error>>
      BY <1>12, <2>1 DEF Decided
    <3>4. /\ pc'[r] = "ended" /\ \A q \in Rank : q # r => pc'[q] = pc[q]
          /\ outcome'[session[r]][r] = "raised" /\ came' = came
          /\ \A t \in Session, q \in Rank :
               t # session[r] \/ q # r => outcome'[t][q] = outcome[t][q]
          /\ pc' \in [Rank -> {"ended"} \cup Place \cup Meeting]
          /\ outcome' \in [Session -> [Rank -> {"none", "ok", "raised"}]]
      BY <3>1, <3>3, <1>12, <2>1, Constants, EndEffect
    <3>5. LocalFiles
      BY <3>1, <1>12, <2>1, Constants
         DEF Decided, LocalFiles, files, TypeOK, RanksOK
    <3>6. Local(r) /\ Protocol'
      BY <3>1, <3>2, <3>3, <3>5, Constants, EndKeepsProtocol
    <3>7. staging' = staging /\ unremoved' = unremoved /\ destination' = destination /\ error' = error /\ (r = 0 => Mine = Absent \/ session[0] \in unremoved)
      <4>1. staging' = staging /\ unremoved' = unremoved /\ destination' = destination /\ error' = error
        BY <3>1, <1>12, <2>1, Constants DEF Decided, files, TypeOK, RanksOK
      <4>2. (r = 0 => Mine = Absent \/ session[0] \in unremoved)
        BY <3>1, <1>12, <2>1, Constants, MetMeans
           DEF Protocol, LabelsOK, LabelsFor, StagingOK, ErrorOK, MeetingsOK,
               Came, Mine, Met, Refused, At, Meeting
      <4> QED BY <4>1, <4>2
    <3>8. faults' \in 0 .. MaxFaults
      BY <1>12, <2>1, MeetingsAssumption DEF Decided, TypeOK, RanksOK
    <3>9. TypeOK'
      BY <3>1, <3>3, <3>4, <3>7, <3>8, <1>12, <2>1, Constants
         DEF TypeOK, RanksOK, within, Mine
    <3>10. CASE r # 0
      BY <3>6, <3>7, <3>9, <3>10, OtherKeepsFiles DEF Protocol, files
    <3>11. CASE r = 0
      <4>1. ErrorOK'
        BY <3>1, <3>3, <3>4, <3>7, <3>11, <1>12, <2>1, Constants, <3>6,
           StaysSaid DEF ErrorOK, Meeting
      <4>2. DestinationOK'
        BY <3>1, <3>3, <3>4, <3>7, <3>11, <1>12, <2>1, Constants
           DEF DestinationOK, Writers, WholeOf, Mine, Before, Meeting, within
      <4>3. StagingOK'
        <5>1. StagingFits'
          BY <3>1, <3>3, <3>4, <3>7, <3>11, Constants
             DEF StagingOK, StagingFits, Came, Mine, within, Meeting
        <5> QED BY <3>1, <3>6, <3>7, <3>11, <5>1, RootKeepsStaging
      <4> QED BY <3>6, <3>9, <4>1, <4>2, <4>3
    <3> QED BY <3>10, <3>11
  <2>2. CASE ~Refused(r, "verdict")
    <3>1. pc[r] # "ended" /\ session[r] \in Session /\ outcome[session[r]][r] = "none"
          /\ (destination.by # Before => destination.by \in Session)
      BY <1>12, <2>2, Constants
         DEF Decided, Met, Protocol, SessionsOK, Meeting, TypeOK, Before
    <3>2. MayEnd(r, "ok")
      BY <3>1, <1>12, <2>2, Constants, MetMeans
         DEF Decided, MayEnd, TypeOK, Protocol, SessionsOK, LabelsOK,
             LabelsFor, MeetingsOK, GatesOK, OutcomesOK, ErrorOK,
             DestinationOK, StagingOK, Came, AtIn, Met, Kind, Meeting, Place
    <3>3. End(r, "ok") /\ UNCHANGED <<within, error>>
      BY <1>12, <2>2 DEF Decided
    <3>4. /\ pc'[r] = "ended" /\ \A q \in Rank : q # r => pc'[q] = pc[q]
          /\ outcome'[session[r]][r] = "ok" /\ came' = came
          /\ \A t \in Session, q \in Rank :
               t # session[r] \/ q # r => outcome'[t][q] = outcome[t][q]
          /\ pc' \in [Rank -> {"ended"} \cup Place \cup Meeting]
          /\ outcome' \in [Session -> [Rank -> {"none", "ok", "raised"}]]
      BY <3>1, <3>3, <1>12, <2>2, Constants, EndEffect
    <3>5. LocalFiles
      BY <3>1, <1>12, <2>2, Constants
         DEF Decided, LocalFiles, files, TypeOK, RanksOK
    <3>6. Local(r) /\ Protocol'
      BY <3>1, <3>2, <3>3, <3>5, Constants, EndKeepsProtocol
    <3>7. staging' = staging /\ unremoved' = unremoved /\ destination' = destination /\ error' = error /\ (r = 0 => Mine = Absent \/ session[0] \in unremoved)
      <4>1. staging' = staging /\ unremoved' = unremoved /\ destination' = destination /\ error' = error
        BY <3>1, <1>12, <2>2, Constants DEF Decided, files, TypeOK, RanksOK
      <4>2. (r = 0 => Mine = Absent \/ session[0] \in unremoved)
        BY <3>1, <1>12, <2>2, Constants, MetMeans
           DEF Decided, Protocol, LabelsOK, LabelsFor, StagingOK, ErrorOK,
               MeetingsOK, Came, Mine, Met, Refused, At, Meeting
      <4> QED BY <4>1, <4>2
    <3>8. faults' \in 0 .. MaxFaults
      BY <1>12, <2>2, MeetingsAssumption DEF Decided, TypeOK, RanksOK
    <3>9. TypeOK'
      BY <3>1, <3>3, <3>4, <3>7, <3>8, <1>12, <2>2, Constants
         DEF TypeOK, RanksOK, within, Mine
    <3>10. CASE r # 0
      BY <3>6, <3>7, <3>9, <3>10, OtherKeepsFiles DEF Protocol, files
    <3>11. CASE r = 0
      <4>1. ErrorOK'
        BY <3>1, <3>3, <3>4, <3>7, <3>11, <1>12, <2>2, Constants, <3>6,
           StaysSaid DEF ErrorOK, Meeting
      <4>2. DestinationOK'
        BY <3>1, <3>3, <3>4, <3>7, <3>11, <1>12, <2>2, Constants
           DEF DestinationOK, Writers, WholeOf, Mine, Before, Meeting, within
      <4>3. StagingOK'
        <5>1. StagingFits'
          BY <3>1, <3>3, <3>4, <3>7, <3>11, Constants
             DEF StagingOK, StagingFits, Came, Mine, within, Meeting
        <5> QED BY <3>1, <3>6, <3>7, <3>11, <5>1, RootKeepsStaging
      <4> QED BY <3>6, <3>9, <4>1, <4>2, <4>3
    <3> QED BY <3>10, <3>11
  <2> QED BY <2>1, <2>2
<1>13. ASSUME NEW r \in Rank, WritePart(r) PROVE IInv'
  <2>0. PICK parts \in {{}, {r}}, fails \in BOOLEAN :
           /\ MayFail("write", fails)
           /\ staging' = [staging EXCEPT ![session[r]] = @ \cup parts]
           /\ Come(r, "write", fails)
    BY <1>13 DEF WritePart
  <2>1. /\ session[0] = session[r] /\ session[r] \in Session
        /\ pc[0] \in {"reserve", "writing", "write"}
        /\ came[session[0]]["reserve"][0] = "well"
        /\ Mine # Absent /\ pc[r] = "writing"
    BY <1>13, WritingTogether DEF WritePart
  <2>2. MayCome(r, "write", IF fails THEN "failed" ELSE "well")
    BY <2>1 DEF MayCome, Protocol, LabelsOK, LabelsFor, GatesOK, AtIn, Came
  <2>3. UNCHANGED <<within, error, outcome, unremoved>> /\ destination' = destination
    BY <1>13 DEF WritePart
  <2>4. /\ pc'[r] = "write" /\ \A q \in Rank : q # r => pc'[q] = pc[q]
        /\ \A t \in Session, m \in Meeting, q \in Rank :
             t # session[r] \/ m # "write" \/ q # r => came'[t][m][q] = came[t][m][q]
        /\ pc' \in [Rank -> {"ended"} \cup Place \cup Meeting]
        /\ came' \in [Session -> [Meeting -> [Rank -> {"no", "well", "failed"}]]]
    BY <2>0, <2>1, ComeEffect DEF Come, Meeting
  <2>5. /\ Mine \in SUBSET Rank
        /\ staging'[session[0]] = Mine \cup parts
        /\ \A s \in Session : s # session[0] => staging'[s] = staging[s]
        /\ staging' \in [Session -> {Absent} \cup SUBSET Rank]
    BY <2>0, <2>1 DEF TypeOK, Mine
  <2>6. LocalFiles
    BY <2>3, <2>5 DEF LocalFiles
  <2>7. Local(r) /\ Protocol'
    BY <2>0, <2>1, <2>2, <2>3, <2>6, ComeKeepsProtocol DEF Meeting
  <2>8. TypeOK'
    <3>1. faults' \in 0 .. MaxFaults
      BY <2>0, MeetingsAssumption DEF MayFail, TypeOK, RanksOK
    <3> QED BY <2>3, <2>4, <2>5, <3>1 DEF TypeOK, RanksOK, within
  <2>9. ErrorOK'
    BY <2>1, <2>3, <2>4, Constants DEF ErrorOK
  <2>10. DestinationOK'
    <3>1. \A s \in Session : came'[s]["verdict"][0] = came[s]["verdict"][0]
      BY <2>4, Constants DEF Meeting
    <3>2. destination.by # Before => destination.by \in Session
      BY DEF TypeOK
    <3> QED BY <2>1, <2>3, <2>4, <3>1, <3>2, Constants
               DEF DestinationOK, within, Writers
  <2>11. StagingOK'
    <3>1. \A s \in Session : /\ came'[s]["verdict"][0] = came[s]["verdict"][0]
                             /\ came'[s]["reserve"][0] = came[s]["reserve"][0]
      BY <2>4, Constants DEF Meeting
    <3>2. staging'[session[0]] # Absent
      BY <2>5, Constants
    <3>3. pc'[0] \in {"reserve", "writing", "write"}
      BY <2>1, <2>4, Constants
    <3>4. ~Came(session[0], "verdict", 0) /\ outcome[session[0]][0] = "none"
      BY <2>1, Constants DEF Protocol, LabelsOK, LabelsFor, SessionsOK
    <3> QED BY <2>1, <2>3, <2>5, <3>1, <3>2, <3>3, <3>4
               DEF StagingOK, Mine, Came, within, TypeOK
  <2> QED BY <2>7, <2>8, <2>9, <2>10, <2>11
<1>14. ASSUME NEW r \in Rank, Start(r) PROVE IInv'
  <2>0. PICK s \in Session : s = session[r] + 1
    BY <1>14, MeetingsAssumption DEF Start, Begin, TypeOK, RanksOK, Session
  <2>1. /\ s = session[r] + 1 /\ pc[r] = "ended"
        /\ session' \in [Rank -> 0 .. Sessions] /\ error' \in [Rank -> BOOLEAN]
        /\ session'[r] = s /\ \A q \in Rank : q # r => session'[q] = session[q]
        /\ error'[r] = FALSE /\ \A q \in Rank : q # r => error'[q] = error[q]
    BY <1>14, <2>0, MeetingsAssumption
       DEF Start, Begin, TypeOK, RanksOK, Session
  <2>2. UNCHANGED <<kind, staging, unremoved, destination, outcome, faults, crashes>>
    BY <1>14 DEF Start, files
  <2>3. PICK label \in Place \cup Meeting :
          /\ pc' \in [Rank -> {"ended"} \cup Place \cup Meeting]
          /\ pc'[r] = label /\ \A q \in Rank : q # r => pc'[q] = pc[q]
          /\ came' \in [Session -> [Meeting -> [Rank -> {"no", "well", "failed"}]]]
          /\ label \in Meeting => came'[s][label][r] = "well"
          /\ \A t \in Session, m \in Meeting, q \in Rank :
               t # s \/ m # label \/ q # r => came'[t][m][q] = came[t][m][q]
          /\ \/ kind[s] = "checked" /\ label = "checking"
             \/ kind[s] # "checked" /\ r = 0 /\ label = "reserving"
             \/ kind[s] = "collective" /\ r # 0 /\ label = "reserve"
             \/ kind[s] = "rank0" /\ r # 0 /\ label = "verdict"
    <3>1. CASE kind[s] = "checked"
      <4>1. Goto(r, "checking") /\ came' = came
        BY <1>14, <2>0, <3>1, <2>1 DEF Start
      <4> QED BY <4>1, <3>1, MoveEffect DEF Place, Meeting, TypeOK, RanksOK
    <3>2. CASE kind[s] # "checked" /\ r = 0
      <4>1. Goto(r, "reserving") /\ came' = came
        BY <1>14, <2>0, <3>2 DEF Start
      <4> QED BY <4>1, <3>2, MoveEffect DEF Place, Meeting, TypeOK, RanksOK
    <3>3. CASE kind[s] # "checked" /\ r # 0
      <4>1. ComeIn(s, r, AfterReserve(s), FALSE)
        BY <1>14, <2>0, <3>3 DEF Start
      <4>2. AfterReserve(s) \in Meeting /\ kind[s] \in Kind
        BY <2>1 DEF AfterReserve, Meeting, TypeOK
      <4>3. \/ kind[s] = "collective" /\ AfterReserve(s) = "reserve"
            \/ kind[s] = "rank0" /\ AfterReserve(s) = "verdict"
        BY <4>2, <3>3 DEF AfterReserve, Kind
      <4>4. /\ came' \in [Session -> [Meeting -> [Rank -> {"no", "well", "failed"}]]]
            /\ pc' \in [Rank -> {"ended"} \cup Place \cup Meeting]
            /\ pc'[r] = AfterReserve(s) /\ \A q \in Rank : q # r => pc'[q] = pc[q]
            /\ came'[s][AfterReserve(s)][r] = "well"
            /\ \A t \in Session, n \in Meeting, q \in Rank :
                 t # s \/ n # AfterReserve(s) \/ q # r => came'[t][n][q] = came[t][n][q]
        <5>1. PICK m \in Meeting : m = AfterReserve(s) /\ ComeIn(s, r, m, FALSE)
          BY <4>1, <4>2, <2>1
        <5>2. /\ came' \in [Session -> [Meeting -> [Rank -> {"no", "well", "failed"}]]]
              /\ pc' \in [Rank -> {"ended"} \cup Place \cup Meeting]
              /\ pc'[r] = m /\ \A q \in Rank : q # r => pc'[q] = pc[q]
              /\ came'[s][m][r] = "well"
              /\ \A u \in Session, n \in Meeting, q \in Rank :
                   u # s \/ n # m \/ q # r => came'[u][n][q] = came[u][n][q]
          BY <5>1 DEF ComeIn, Goto, TypeOK, RanksOK
        <5> QED BY <5>1, <5>2
      <4> QED BY <4>3, <4>4, <3>3
    <3> QED BY <3>1, <3>2, <3>3
  <2>4. /\ outcome[s][r] = "none" /\ (\A m \in Meeting : ~Came(s, m, r))
        /\ s > session[r]
        /\ \A q \in Rank : session'[q] >= session[q]
    <3>1. s > session[r] /\ \A q \in Rank : session'[q] >= session[q]
      <4>1. \A q \in Rank : session[q] \in Int
        BY MeetingsAssumption DEF TypeOK, RanksOK
      <4> QED BY <4>1, <2>1
    <3> QED BY <3>1, <2>1 DEF Protocol, SessionsOK
  <2>17. /\ \A t \in Session, m \in Meeting, q \in Rank :
              t # s \/ q # r => came'[t][m][q] = came[t][m][q]
         /\ \A q \in Rank : q # r => session'[q] = session[q] /\ pc'[q] = pc[q]
    BY <2>1, <2>3
  <2>18. pc'[r] # "ended"
    BY <2>3
  <2>5. \A t \in Session, m \in Meeting :
           /\ \A q \in Rank : Came(t, m, q) => came'[t][m][q] = came[t][m][q]
           /\ WellIn(t, m) => WellIn(t, m)'
           /\ RefusedIn(t, m) => RefusedIn(t, m)'
    <3>1. \A t \in Session, m \in Meeting, q \in Rank :
            Came(t, m, q) => came'[t][m][q] = came[t][m][q]
      BY <2>3, <2>4
    <3> QED BY <3>1 DEF WellIn, RefusedIn, CompleteIn, Came
  <2>6. TypeOK'
    BY <2>1, <2>2, <2>3 DEF TypeOK, RanksOK
  <2>7. SessionsOK'
    <3>1. ASSUME NEW q \in Rank, NEW t \in Session, t > session'[q]
          PROVE  outcome'[t][q] = "none" /\ \A m \in Meeting : ~Came(t, m, q)'
      <4>1. t > session[q] /\ (t # s \/ q # r)
        BY <3>1, <2>1, <2>4 DEF TypeOK, RanksOK, Session
      <4>2. outcome[t][q] = "none" /\ \A m \in Meeting : ~Came(t, m, q)
        BY <4>1 DEF Protocol, SessionsOK
      <4> QED BY <4>1, <4>2, <2>2, <2>17 DEF Came
    <3>2. ASSUME NEW q \in Rank, pc'[q] # "ended"
          PROVE  session'[q] \in Session /\ outcome'[session'[q]][q] = "none"
      BY <3>2, <2>1, <2>2, <2>3, <2>4 DEF Protocol, SessionsOK
    <3>3. session'[0] >= session[0]
      BY <2>4, Constants
    <3>4. /\ \A t \in Session : t > session'[0] => staging'[t] = Absent
          /\ destination'.by <= session'[0]
      BY <3>3, <2>1, <2>2, Constants, MeetingsAssumption
         DEF Protocol, SessionsOK, TypeOK, RanksOK, Session, Before
    <3> QED BY <3>1, <3>2, <3>4 DEF SessionsOK
  <2>8. Ahead'
    <3> SUFFICES ASSUME NEW q \in Rank, NEW p \in Rank, NEW t \in Session,
                        t > session'[q] \/ (t = session'[q] /\ pc'[q] # "ended"),
                        t < session'[p] \/ (t = session'[p] /\ pc'[p] = "ended")
                 PROVE  outcome[t][p] # "none"
      BY <2>2 DEF Ahead
    <3>1. t > session[q] \/ (t = session[q] /\ pc[q] # "ended")
      <4>1. CASE q = r
        BY <4>1, <2>1, <2>4 DEF TypeOK, RanksOK, Session
      <4> QED BY <4>1, <2>17
    <3>2. t < session[p] \/ (t = session[p] /\ pc[p] = "ended")
      <4>1. CASE p = r
        BY <4>1, <2>1, <2>18 DEF TypeOK, RanksOK, Session
      <4> QED BY <4>1, <2>17
    <3> QED BY <3>1, <3>2 DEF Protocol, Ahead
  <2>9. LabelsOK'
    <3>1. /\ \A m \in Meeting : m # label => ~Came(s, m, r)'
          /\ label \in Meeting => Came(s, label, r)'
      <4>1. \A m \in Meeting : came[s][m][r] = "no"
        BY <2>4 DEF Came
      <4>2. \A m \in Meeting : m # label => came'[s][m][r] = came[s][m][r]
        BY <2>3
      <4>3. label \in Meeting => came'[s][label][r] = "well"
        BY <2>3
      <4> QED BY <4>1, <4>2, <4>3 DEF Came
    <3> SUFFICES ASSUME NEW q \in Rank
                 PROVE  LabelsFor(q)'
      BY DEF LabelsOK
    <3>2. CASE q = r
      <4>1. session'[q] = s /\ pc'[q] = label /\ kind' = kind
        BY <3>2, <2>1, <2>2, <2>3
      <4> QED BY <3>1, <3>2, <4>1, <2>3 DEF Meeting, LabelsFor
    <3>3. CASE q # r
      <4>1. session'[q] = session[q] /\ pc'[q] = pc[q]
            /\ (pc[q] # "ended" => session[q] \in Session)
        BY <3>3, <2>17 DEF Protocol, SessionsOK
      <4>2. pc[q] # "ended" => \A m \in Meeting : Came(session[q], m, q)' <=> Came(session[q], m, q)
        BY <3>3, <4>1, <2>17 DEF Came
      <4> QED BY <4>1, <4>2, <2>2 DEF Protocol, LabelsOK, LabelsFor, Meeting
    <3> QED BY <3>2, <3>3
  <2>10. MeetingsOK'
    <3> SUFFICES ASSUME NEW t \in Session, NEW q \in Rank
                 PROVE  /\ Came(t, "preflight", q)' => kind[t] = "checked"
                        /\ Came(t, "reserve", q)' \/ Came(t, "write", q)' => kind[t] = "collective"
                        /\ came'[t]["reserve"][q] = "failed" \/ came'[t]["verdict"][q] = "failed" => q = 0
      BY <2>2 DEF MeetingsOK
    <3>1. CASE t # s \/ q # r
      BY <3>1, <2>17 DEF Protocol, MeetingsOK, Came, Meeting
    <3>2. CASE t = s /\ q = r
      BY <3>2, <2>1, <2>3, <2>4 DEF Came, Meeting
    <3> QED BY <3>1, <3>2
  <2>11. GatesOK'
    <3>1. \A t \in Session, q \in Rank :
            /\ Came(t, "write", q)' => Came(t, "write", q)
            /\ Came(t, "verdict", q)' /\ kind[t] # "rank0" => Came(t, "verdict", q)
      BY <2>1, <2>3 DEF Came, Meeting
    <3>2. \A t \in Session, q \in Rank, labels \in SUBSET (Place \ {"checking", "reserving"}) :
            AtIn(q, t, labels)' => AtIn(q, t, labels) /\ q # r
      BY <2>1, <2>3 DEF AtIn, Place, Meeting
    <3>3. \A t \in Session, q \in Rank : kind[t] = "checked"
            /\ AtIn(q, t, {"reserving", "staging", "validating", "replacing", "cleaning"})'
            => AtIn(q, t, {"reserving", "staging", "validating", "replacing", "cleaning"})
      BY <2>1, <2>3 DEF AtIn, Meeting
    <3>4. \A t \in Session : AtIn(0, t, {"cleaning"})' => error'[0] = error[0]
      BY <2>1, <2>3, Constants DEF AtIn
    <3>5. \A t \in Session, q \in Rank : AtIn(q, t, {"cleaning"}) => q = 0
      BY DEF Protocol, LabelsOK, LabelsFor, AtIn
    <3> QED BY <2>2, <2>5, <3>1, <3>2, <3>3, <3>4, <3>5
               DEF Protocol, GatesOK, Meeting, Place
  <2>12. OutcomesOK'
    BY <2>2, <2>5 DEF Protocol, OutcomesOK, Meeting
  <2>13. ErrorOK'
    <3>1. CASE r = 0
      BY <3>1, <2>1, <2>3, Constants DEF ErrorOK
    <3>2. CASE r # 0
      <4>1. /\ pc'[0] = pc[0] /\ error'[0] = error[0] /\ session'[0] = session[0]
            /\ pc[0] # "ended" => session[0] \in Session
        BY <3>2, <2>1, <2>3, Constants DEF Protocol, SessionsOK
      <4> QED BY <4>1, <2>2, <2>5 DEF ErrorOK, Meeting
    <3> QED BY <3>1, <3>2
  <2>14. /\ \A t \in Session : /\ came'[t]["verdict"][0] = came[t]["verdict"][0]
                              /\ came'[t]["reserve"][0] = came[t]["reserve"][0]
         /\ destination.by # Before => destination.by \in Session
    BY <2>3, Constants DEF Meeting, TypeOK, Before
  <2>15. DestinationOK'
    <3>1. CASE r = 0
      <4>1. \A t \in Session : came[t]["verdict"][0] = "well" => session'[0] # t \/ session[0] = t
        BY <3>1, <2>1, <2>4 DEF Came, Meeting
      <4>2. /\ UNCHANGED destination
            /\ \A t \in Session : Writers(t)' = Writers(t)
        BY <2>2 DEF Writers
      <4>3. pc'[0] # "replacing"
        BY <3>1, <2>3
      <4> QED BY <4>1, <4>2, <4>3, <2>14 DEF DestinationOK
    <3>2. CASE r # 0
      <4>1. UNCHANGED destination /\ session'[0] = session[0] /\ pc'[0] = pc[0]
        BY <3>2, <2>1, <2>2, <2>3, Constants
      <4> QED BY <4>1, <2>2, <2>14
              DEF DestinationOK, Writers, WholeOf, Mine
    <3> QED BY <3>1, <3>2
  <2>16. StagingOK'
    <3>1. CASE r = 0
      <4>1. staging[s] = Absent
        BY <3>1, <2>1, <2>4 DEF Protocol, SessionsOK
      <4>2. session'[0] = s /\ pc'[0] \in {"checking", "reserving"}
        BY <3>1, <2>1, <2>3
      <4> QED BY <4>1, <4>2, <2>2, <2>14 DEF StagingOK, Came, Mine, TypeOK
    <3>2. CASE r # 0
      <4>1. pc[0] # "ended" => session[0] \in Session
        BY Constants DEF Protocol, SessionsOK
      <4>2. pc'[0] = pc[0] /\ session'[0] = session[0]
        BY <3>2, <2>17, Constants
      <4> QED BY <4>1, <4>2, <2>2, <2>14 DEF StagingOK, Came, Mine, TypeOK
    <3> QED BY <3>1, <3>2
  <2> QED BY <2>6, <2>7, <2>8, <2>9, <2>10, <2>11, <2>12, <2>13, <2>15, <2>16
             DEF Protocol
<1>15. ASSUME Crash PROVE IInv'
  <2>1. PICK s \in Session : /\ \A r \in Rank : session[r] <= s
                             /\ \E r \in Rank : session[r] = s
                             /\ session' = [r \in Rank |-> s]
    BY <1>15 DEF Crash, Kill
  <2>2. /\ pc' = [r \in Rank |-> "ended"]
        /\ UNCHANGED <<kind, staging, unremoved, destination, error, came, outcome, faults>>
        /\ crashes < MaxCrashes /\ crashes' = crashes + 1
    BY <1>15 DEF Crash, Kill, files
  <2>3. TypeOK'
    BY <2>1, <2>2, MeetingsAssumption DEF TypeOK, RanksOK, Session
  <2>4. \A r \in Rank : session'[r] = s /\ pc'[r] = "ended"
    BY <2>1, <2>2
  <2>5. \A t \in Session, m \in Meeting : /\ (WellIn(t, m)' <=> WellIn(t, m))
                                       /\ (RefusedIn(t, m)' <=> RefusedIn(t, m))
    BY <2>2 DEF WellIn, RefusedIn, CompleteIn, Came
  <2>6. SessionsOK'
    <3>1. ASSUME NEW r \in Rank, NEW t \in Session, t > s PROVE t > session[r]
      BY <3>1, <2>1 DEF TypeOK, RanksOK, Session
    <3>2. destination.by <= s
      BY <2>1, Constants, MeetingsAssumption
         DEF Protocol, SessionsOK, TypeOK, RanksOK, Session, Before
    <3> QED BY <3>1, <3>2, <2>2, <2>4, Constants
               DEF Protocol, SessionsOK, Came
  <2>7. Ahead'
    BY <2>4 DEF Ahead, Session
  <2>8. LabelsOK'
    BY <2>4 DEF LabelsOK, LabelsFor, Meeting
  <2>9. MeetingsOK' /\ OutcomesOK'
    BY <2>2, <2>5 DEF Protocol, MeetingsOK, OutcomesOK, Came, Meeting
  <2>10. GatesOK'
    BY <2>2, <2>4, <2>5 DEF Protocol, GatesOK, AtIn, Came, Meeting
  <2>11. ErrorOK'
    BY <2>4, Constants DEF ErrorOK
  <2>12. DestinationOK'
    <3>1. ASSUME NEW t \in Session, came[t]["verdict"][0] = "well", t = s
          PROVE  session[0] = t
      BY <3>1, <2>1, Constants
         DEF Protocol, SessionsOK, Came, Meeting, TypeOK, RanksOK, Session
    <3> QED BY <3>1, <2>2, <2>4, Constants DEF DestinationOK, Writers
  <2>13. StagingOK'
    BY <2>2, <2>4, Constants DEF StagingOK, Came
  <2> QED BY <2>3, <2>6, <2>7, <2>8, <2>9, <2>10, <2>11, <2>12, <2>13
             DEF Protocol
<1>17. ASSUME CleanUpFails PROVE IInv'
  <2>1. CASE error[0]
    <3>1. pc[0] # "ended" /\ session[0] \in Session /\ outcome[session[0]][0] = "none"
          /\ (destination.by # Before => destination.by \in Session)
      BY <1>17, <2>1, Constants
         DEF CleanUpFails, Protocol, SessionsOK, Meeting, TypeOK, Before
    <3>2. MayCome(0, "verdict", IF TRUE THEN "failed" ELSE "well")
      BY <3>1, <1>17, <2>1, Constants, MetMeans
         DEF CleanUpFails, MayCome, TypeOK, Protocol, SessionsOK, LabelsOK,
             LabelsFor, MeetingsOK, GatesOK, OutcomesOK, ErrorOK,
             DestinationOK, StagingOK, Came, AtIn, Stage, Met, Cleaned, Kind,
             Meeting, Place
    <3>3. Come(0, "verdict", TRUE) /\ UNCHANGED <<within, error, outcome>>
      BY <1>17, <2>1 DEF CleanUpFails, Cleaned, Come, Stage
    <3>4. /\ pc'[0] = "verdict" /\ \A q \in Rank : q # 0 => pc'[q] = pc[q]
          /\ came'[session[0]]["verdict"][0] = "failed"
          /\ \A t \in Session, n \in Meeting, q \in Rank :
               t # session[0] \/ n # "verdict" \/ q # 0 => came'[t][n][q] = came[t][n][q]
          /\ pc' \in [Rank -> {"ended"} \cup Place \cup Meeting]
          /\ came' \in [Session -> [Meeting -> [Rank -> {"no", "well", "failed"}]]]
      BY <3>1, <3>3, <1>17, <2>1, Constants, ComeEffect
         DEF Come, Meeting, Place
    <3>5. LocalFiles
      BY <3>1, <1>17, <2>1, Constants
         DEF CleanUpFails, LocalFiles, Stage, TypeOK, RanksOK
    <3>6. Local(0) /\ Protocol'
      BY <3>1, <3>2, <3>3, <3>5, Constants, ComeKeepsProtocol DEF Meeting
    <3>7. staging' = staging /\ unremoved' = unremoved \cup {session[0]} /\ destination' = destination /\ error' = error /\ pc[0] = "cleaning" /\ ~Came(session[0], "verdict", 0)
      <4>1. staging' = staging /\ unremoved' = unremoved \cup {session[0]} /\ destination' = destination /\ error' = error
        BY <3>1, <1>17, <2>1, Constants DEF CleanUpFails, Stage, TypeOK, RanksOK
      <4>2. pc[0] = "cleaning" /\ ~Came(session[0], "verdict", 0)
        BY <3>1, <1>17, <2>1, Constants, MetMeans
           DEF CleanUpFails, Protocol, LabelsOK, LabelsFor, StagingOK, ErrorOK,
               MeetingsOK, Came, Mine, Met, Refused, At, Meeting
      <4> QED BY <4>1, <4>2
    <3>8. faults' \in 0 .. MaxFaults
      BY <1>17, <2>1, MeetingsAssumption DEF CleanUpFails, MayFail, TypeOK, RanksOK
    <3>9. TypeOK'
      BY <3>1, <3>3, <3>4, <3>7, <3>8, <1>17, <2>1, Constants
         DEF CleanUpFails, Stage, TypeOK, RanksOK, within
    <3>10. ErrorOK'
      BY <3>1, <3>3, <3>4, <3>7, <1>17, <2>1, Constants, <3>6, StaysSaid
         DEF ErrorOK, Meeting
    <3>11. DestinationOK'
      BY <3>1, <3>3, <3>4, <3>7, <1>17, <2>1, Constants, SMTT(60)
         DEF DestinationOK, Came, Writers, WholeOf, Mine, Before, Meeting,
             within
    <3>12. StagingOK'
      <4>1. FailsToRemove
        BY <3>4, <3>7 DEF FailsToRemove
      <4>2. StagingFits'
        BY <3>1, <3>3, <3>4, <3>7, Constants
           DEF StagingOK, StagingFits, Came, Mine, within, Meeting
      <4> QED BY <3>1, <3>6, <3>7, <4>1, <4>2, RootKeepsStaging
    <3> QED BY <3>6, <3>9, <3>10, <3>11, <3>12
  <2>2. CASE ~error[0]
    <3>1. pc[0] # "ended" /\ session[0] \in Session /\ outcome[session[0]][0] = "none"
          /\ (destination.by # Before => destination.by \in Session)
      BY <1>17, <2>2, Constants
         DEF CleanUpFails, Protocol, SessionsOK, Meeting, TypeOK, Before
    <3>2. MayEnd(0, "raised")
      BY <3>1, <1>17, <2>2, Constants, MetMeans
         DEF CleanUpFails, MayEnd, TypeOK, Protocol, SessionsOK, LabelsOK,
             LabelsFor, MeetingsOK, GatesOK, OutcomesOK, ErrorOK,
             DestinationOK, StagingOK, Came, AtIn, Stage, Met, Cleaned, Kind,
             Meeting, Place
    <3>3. End(0, "raised") /\ UNCHANGED <<within, error>>
      BY <1>17, <2>2 DEF CleanUpFails, Cleaned, Come, Stage
    <3>4. /\ pc'[0] = "ended" /\ \A q \in Rank : q # 0 => pc'[q] = pc[q]
          /\ outcome'[session[0]][0] = "raised" /\ came' = came
          /\ \A t \in Session, q \in Rank :
               t # session[0] \/ q # 0 => outcome'[t][q] = outcome[t][q]
          /\ pc' \in [Rank -> {"ended"} \cup Place \cup Meeting]
          /\ outcome' \in [Session -> [Rank -> {"none", "ok", "raised"}]]
      BY <3>1, <3>3, <1>17, <2>2, Constants, EndEffect
    <3>5. LocalFiles
      BY <3>1, <1>17, <2>2, Constants
         DEF CleanUpFails, LocalFiles, Stage, TypeOK, RanksOK
    <3>6. Local(0) /\ Protocol'
      BY <3>1, <3>2, <3>3, <3>5, Constants, EndKeepsProtocol
    <3>7. staging' = staging /\ unremoved' = unremoved \cup {session[0]} /\ destination' = destination /\ error' = error /\ pc[0] = "cleaning" /\ ~Came(session[0], "verdict", 0)
      <4>1. staging' = staging /\ unremoved' = unremoved \cup {session[0]} /\ destination' = destination /\ error' = error
        BY <3>1, <1>17, <2>2, Constants DEF CleanUpFails, Stage, TypeOK, RanksOK
      <4>2. pc[0] = "cleaning" /\ ~Came(session[0], "verdict", 0)
        BY <3>1, <1>17, <2>2, Constants, MetMeans
           DEF CleanUpFails, Protocol, LabelsOK, LabelsFor, StagingOK, ErrorOK,
               MeetingsOK, Came, Mine, Met, Refused, At, Meeting
      <4> QED BY <4>1, <4>2
    <3>8. faults' \in 0 .. MaxFaults
      BY <1>17, <2>2, MeetingsAssumption DEF CleanUpFails, MayFail, TypeOK, RanksOK
    <3>9. TypeOK'
      BY <3>1, <3>3, <3>4, <3>7, <3>8, <1>17, <2>2, Constants
         DEF CleanUpFails, Stage, TypeOK, RanksOK, within
    <3>10. ErrorOK'
      BY <3>1, <3>3, <3>4, <3>7, <1>17, <2>2, Constants, <3>6, StaysSaid
         DEF ErrorOK, Meeting
    <3>11. DestinationOK'
      BY <3>1, <3>3, <3>4, <3>7, <1>17, <2>2, Constants
         DEF DestinationOK, Writers, WholeOf, Mine, Before, Meeting, within
    <3>12. StagingOK'
      <4>1. FailsToRemove
        BY <3>4, <3>7 DEF FailsToRemove
      <4>2. StagingFits'
        BY <3>1, <3>3, <3>4, <3>7, Constants
           DEF StagingOK, StagingFits, Came, Mine, within, Meeting
      <4> QED BY <3>1, <3>6, <3>7, <4>1, <4>2, RootKeepsStaging
    <3> QED BY <3>6, <3>9, <3>10, <3>11, <3>12
  <2> QED BY <2>1, <2>2
<1>16. CASE UNCHANGED vars
  BY <1>16
     DEF vars, files, ranks, TypeOK, RanksOK, Protocol, SessionsOK, Ahead,
         LabelsOK, LabelsFor, MeetingsOK, GatesOK, OutcomesOK, ErrorOK,
         DestinationOK, StagingOK, Came, WellIn, RefusedIn, CompleteIn, AtIn,
         Mine, WholeOf, Writers
<1> QED BY <1>1, <1>2, <1>3, <1>4, <1>5, <1>6, <1>7, <1>8, <1>9, <1>10, <1>11,
           <1>12, <1>13, <1>14, <1>15, <1>16, <1>17 DEF Next, RootStep, RankStep

\* It holds before the first transaction.
LEMMA InitIInv == Init => IInv
<1> SUFFICES ASSUME Init PROVE IInv
  OBVIOUS
<1>1. \A r \in Rank : session[r] = 0 /\ pc[r] = "ended"
  BY DEF Init, RanksInit
<1>2. \A s \in Session, m \in Meeting, r \in Rank : came[s][m][r] = "no"
  BY DEF Init, RanksInit
<1>3. \A s \in Session : staging[s] = Absent /\ \A r \in Rank : outcome[s][r] = "none"
  BY DEF Init, RanksInit
<1>4. TypeOK
  BY MeetingsAssumption DEF Init, RanksInit, TypeOK, RanksOK
<1>5. SessionsOK
  BY <1>1, <1>2, <1>3, Constants DEF Init, SessionsOK, Came, Before
<1>6. Ahead
  BY <1>1 DEF Ahead, Session
<1>7. LabelsOK
  BY <1>1 DEF LabelsOK, LabelsFor, Meeting
<1>8. MeetingsOK
  BY <1>2 DEF MeetingsOK, Came, Meeting
<1>9. GatesOK
  BY <1>1, <1>2 DEF GatesOK, Came, AtIn, Meeting
<1>10. ErrorOK /\ OutcomesOK
  BY <1>1, <1>3, Constants DEF ErrorOK, OutcomesOK
<1>11. DestinationOK
  BY <1>1, <1>2, Constants DEF Init, DestinationOK, Meeting, Before
<1>12. StagingOK
  BY <1>1, <1>3, Constants DEF Init, StagingOK
<1> QED BY <1>4, <1>5, <1>6, <1>7, <1>8, <1>9, <1>10, <1>11, <1>12
           DEF IInv, Protocol

\* The invariant holds in every reachable state.
THEOREM Inductive == Spec => []IInv
<1>1. Init => IInv
  BY InitIInv
<1>2. IInv /\ [Next]_vars => IInv'
  BY NextIInv
<1> QED BY <1>1, <1>2, PTL DEF Spec

-----------------------------------------------------------------------------
(* What it implies *)

\* A verdict of success is the end of all doubt: no meeting of the transaction was
\* refused, because rank zero comes to the last one only after the others.
LEMMA SuccessExcludesRefusal ==
    ASSUME IInv, NEW s \in Session, came[s]["verdict"][0] = "well", NEW m \in Meeting
    PROVE  ~RefusedIn(s, m)
<1> SUFFICES ASSUME RefusedIn(s, m) PROVE FALSE
  OBVIOUS
<1>1. PICK q \in Rank : came[s][m][q] = "failed"
  BY DEF RefusedIn
<1>2. Came(s, m, 0) /\ Came(s, "verdict", 0)
  BY Constants DEF RefusedIn, CompleteIn, Came
<1>3. CASE m = "preflight"
  BY <1>1, <1>2, <1>3, Constants
     DEF IInv, Protocol, MeetingsOK, GatesOK, WellIn
<1>4. CASE m \in {"reserve", "write"}
  <2>1. kind[s] = "collective"
    BY <1>2, <1>4, Constants DEF IInv, Protocol, MeetingsOK
  <2>2. WellIn(s, "write")
    BY <2>1, <1>2, Constants DEF IInv, Protocol, GatesOK
  <2>3. WellIn(s, "reserve")
    BY <2>2, Constants DEF IInv, Protocol, GatesOK, WellIn, Came
  <2> QED BY <1>1, <1>4, <2>2, <2>3 DEF WellIn
<1>5. CASE m = "verdict"
  BY <1>1, <1>5 DEF IInv, Protocol, MeetingsOK
<1> QED BY <1>3, <1>4, <1>5 DEF Meeting

\* Whatever fails and whenever the job is killed, the file under the final name is
\* the one that was there or a whole one.
THEOREM NoTornArtifact == Spec => []DestinationIsWhole
<1>1. IInv => DestinationIsWhole
  BY DEF IInv, DestinationOK, DestinationIsWhole, WholeOf
<1> QED BY <1>1, Inductive, PTL

\* The verdict is the same on every rank and true of the file, and a transaction
\* that has ended leaves no staging file.
THEOREM VerdictsAreTrue == Spec => []PublishInv
<1>1. IInv => PublishInv
  <2> SUFFICES ASSUME IInv PROVE PublishInv
    OBVIOUS
  <2>1. ASSUME NEW s \in Session, NEW r \in Rank, outcome[s][r] = "raised"
        PROVE  came[s]["verdict"][0] # "well"
    BY <2>1, SuccessExcludesRefusal DEF IInv, Protocol, OutcomesOK
  <2>2. ASSUME NEW s \in Session, NEW r \in Rank, outcome[s][r] = "ok"
        PROVE  came[s]["verdict"][0] = "well"
    BY <2>2, Constants DEF IInv, Protocol, OutcomesOK, WellIn
  <2>3. ASSUME NEW s \in Session, destination.by = s
        PROVE  came[s]["verdict"][0] = "well"
    BY <2>3, Constants DEF IInv, DestinationOK, Before
  <2>4. VerdictIsTheFile
    <3>1. ASSUME NEW s \in Session, NEW r \in Rank, outcome[s][r] = "ok", Latest(s)
          PROVE  destination.by = s
      <4>1. ~(s > session[0])
        BY <2>2, <3>1, Constants DEF IInv, Protocol, SessionsOK, Came, Meeting
      <4>2. session[0] = s
        BY <4>1, <3>1, Constants, MeetingsAssumption
           DEF Latest, IInv, TypeOK, RanksOK, Session
      <4> QED BY <4>2, <2>2, <3>1 DEF IInv, DestinationOK
    <3> QED BY <2>1, <2>3, <3>1 DEF VerdictIsTheFile
  <2>5. EndsAlike
    BY <2>1, <2>2 DEF EndsAlike
  <2>6. OnlyKillsLitter
    <3>1. ASSUME NEW s \in Session, s \in unremoved
          PROVE  came[s]["verdict"][0] # "well" /\ \A r \in Rank : outcome[s][r] # "ok"
      <4>1. came[s]["verdict"][0] = "failed" \/ outcome[s][0] = "raised"
        BY <3>1 DEF IInv, StagingOK
      <4> QED BY <4>1, <2>1, <2>2, Constants
    <3> QED BY <2>3, <3>1, Constants DEF OnlyKillsLitter, IInv, StagingOK, Came
  <2> QED BY <2>4, <2>5, <2>6 DEF PublishInv, IInv
<1> QED BY <1>1, Inductive, PTL
=============================================================================
