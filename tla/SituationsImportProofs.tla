----------------------- MODULE SituationsImportProofs -----------------------
(***************************************************************************)
(* The import of situations, for any feed, any number of environments and  *)
(* faults and any page size: what an invocation imported is stored, and    *)
(* the flags made of a complete import are those of the feed.              *)
(***************************************************************************)
EXTENDS SituationsImport, NaturalsInduction, WellFoundedInduction, TLAPS

\* The rows in the table and in the hands of the invocations.
Known == stored \cup UNION {response[e] : e \in Environments}

\* What the feed once said, stamped before the feed went on.
Proper(r) ==
    /\ r.version <= feed[r.situation] /\ r.timestamp <= clock
    /\ r.version < feed[r.situation] => r.timestamp < clock
    /\ Says(r.situation, r.version) # "unreadable"

\* A later version has a later timestamp, so that Latest is the last version.
Ordered == \A q, r \in Known :
    q.situation = r.situation /\ q.version < r.version => q.timestamp < r.timestamp

RowsInv == (\A r \in Known : Proper(r)) /\ Ordered

\* Of a response, what is not pending is in the table.
Stored(r) == \E q \in stored : q.situation = r.situation /\ q.version = r.version

ResponsesInserted == \A e \in Environments :
    pending[e] \subseteq response[e] /\ \A r \in response[e] \ pending[e] : Stored(r)

FlagsPast == flaggedAt <= clock

SxInv ==
    /\ SxTypeOK /\ RowsInv /\ ResponsesInserted
    /\ StoredWhenDone /\ FlagsPast /\ FlagsFollowFeed

USE SituationsAssumption DEF NoTime

-----------------------------------------------------------------------------
(* The responses are rows of the feed as it is now. *)
LEMMA RowsOfFeed ==
    ASSUME SxTypeOK
    PROVE  /\ \A s \in Situations : Len(Versions[s]) \in Nat
           /\ \A s \in Situations : feed[s] \in Nat
           /\ Rows(clock) \subseteq SxRow
           /\ \A r \in Rows(clock) :
                /\ r.version = feed[r.situation] /\ r.timestamp = clock
                /\ Says(r.situation, r.version) # "unreadable"
<1>1. \A s \in Situations : Len(Versions[s]) \in Nat
  BY DEF Conditions
<1>2. \A s \in Situations : feed[s] \in Nat
  BY <1>1 DEF SxTypeOK
<1>3. Rows(clock) \subseteq SxRow
  BY <1>2 DEF Rows, SxRow, Readable, SxTypeOK
<1>4. \A r \in Rows(clock) :
         /\ r.version = feed[r.situation] /\ r.timestamp = clock
         /\ Says(r.situation, r.version) # "unreadable"
  BY DEF Rows, Readable
<1> QED BY <1>1, <1>2, <1>3, <1>4

(* The rows in hand are rows. *)
LEMMA KnownRows == SxTypeOK => Known \subseteq SxRow
  BY DEF SxTypeOK, Known

(* As long as the feed is the same, fewer rows are as good. *)
LEMMA FewerRows ==
    ASSUME RowsInv, Known' \subseteq Known, UNCHANGED <<feed, clock>>
    PROVE  RowsInv'
  BY DEF RowsInv, Proper, Ordered, Says

(* Every situation with a row in the table has a latest one. *)
LEMMA LatestExists ==
    ASSUME SxTypeOK, RowsInv, NEW s, NEW q \in stored, q.situation = s
    PROVE  \E r \in Latest(s) : r.timestamp >= q.timestamp
<1> DEFINE Of == {r \in stored : r.situation = s}
           Ages == {clock - r.timestamp : r \in Of}
<1>1. /\ clock \in Nat
      /\ \A r \in Of : r.timestamp \in Nat /\ r.timestamp <= clock
  BY DEF SxTypeOK, SxRow, RowsInv, Known, Proper
<1>2. Ages \subseteq Nat /\ Ages # {}
  BY <1>1
<1>3. \E a \in Ages : \A b \in Ages : a <= b
  <2> HIDE DEF Ages
  <2> DEFINE Less == {p \in Nat \X Nat : p[1] < p[2]}
  <2>1. OpToRel(<, Nat) = Less
    BY Zenon DEF OpToRel
  <2>2. IsWellFoundedOn(Less, Nat)
    BY <2>1, NatLessThanWellFounded, Zenon
  <2> HIDE DEF Less
  <2>3. PICK a \in Ages : \A b \in Ages : ~(<<b, a>> \in Less)
    BY <2>2, <1>2, WFMin
  <2>4. \A b \in Ages : ~(b < a)
    BY <2>3, <1>2 DEF Less
  <2> QED BY <2>4, <1>2
<1>4. PICK r \in Of : \A p \in Of : clock - r.timestamp <= clock - p.timestamp
  BY <1>3
<1>5. \A p \in Of : p.timestamp <= r.timestamp
  BY <1>4, <1>1
<1>6. r \in Latest(s)
  BY <1>5 DEF Latest
<1> QED BY <1>5, <1>6, <1>1

(* Where the last version is stored, Latest has no other. *)
LEMMA LatestIsLast ==
    ASSUME SxTypeOK, RowsInv, NEW s \in Situations,
           NEW q \in stored, q.situation = s, q.version = feed[s]
    PROVE  Latest(s) # {} /\ \A r \in Latest(s) : r.version = feed[s]
<1>1. Latest(s) # {}
  BY LatestExists
<1>2. ASSUME NEW r \in Latest(s) PROVE r.version = feed[s]
  <2>1. /\ r \in stored /\ r.situation = s /\ q.timestamp <= r.timestamp
        /\ r \in Known /\ q \in Known /\ r \in SxRow /\ q \in SxRow
    BY <1>2, KnownRows DEF Latest, Known
  <2>2. r.version <= feed[s]
    BY <2>1 DEF RowsInv, Proper
  <2>3. ~(r.version < q.version)
    BY <2>1 DEF RowsInv, Ordered, SxRow
  <2> QED BY <2>1, <2>2, <2>3, RowsOfFeed DEF SxRow
<1> QED BY <1>1, <1>2

-----------------------------------------------------------------------------
(* The steps. *)

LEMMA SxBegins == SxInit => SxInv
<1> SUFFICES ASSUME SxInit PROVE SxInv
  OBVIOUS
<1>1. \A s \in Situations : 0 \in 0 .. Len(Versions[s])
  BY DEF Conditions
<1>2. SxTypeOK
  BY <1>1 DEF SxInit, SxTypeOK, SxRow
<1>3. Known = {}
  BY DEF SxInit, Known
<1>4. RowsInv
  BY <1>3 DEF RowsInv, Ordered
<1>5. ResponsesInserted /\ StoredWhenDone /\ FlagsPast /\ FlagsFollowFeed
  BY DEF SxInit, ResponsesInserted, StoredWhenDone, FlagsPast, FlagsFollowFeed
<1> QED BY <1>2, <1>4, <1>5 DEF SxInv

(* The publisher goes on: the flags are out of date. *)
LEMMA PublishKeeps ==
    ASSUME SxInv, NEW s \in Situations, Publish(s)
    PROVE  SxInv'
<1>1. \A t \in Situations : Len(Versions[t]) \in Nat /\ feed[t] \in Nat
  BY RowsOfFeed DEF SxInv
<1>2. /\ \A t \in Situations : feed'[t] \in 0 .. Len(Versions[t]) /\ feed[t] <= feed'[t]
      /\ clock' = clock + 1 /\ clock \in Nat
  BY <1>1 DEF SxInv, SxTypeOK, Publish
<1>3. UNCHANGED <<phase, response, pending, link, stored, flagged, promised, flaggedAt, mishaps>>
  BY DEF Publish, invocation
<1>4. SxTypeOK'
  <2>1. \A r \in stored : r.version <= feed[r.situation] /\ r.version \in Nat
                          /\ r.situation \in Situations
    BY DEF SxInv, SxTypeOK, SxRow
  <2>2. \A r \in stored : r.version <= feed'[r.situation]
    BY <2>1, <1>1, <1>2
  <2> QED BY <1>2, <1>3, <2>2 DEF SxInv, SxTypeOK, SxRow, Says
<1>5. RowsInv'
  <2>1. Known' = Known
    BY <1>3 DEF Known
  <2>2. ASSUME NEW r \in Known PROVE Proper(r)'
    <3>1. /\ r.situation \in Situations /\ r.version \in Nat /\ r.timestamp \in Nat
          /\ r.version <= feed[r.situation] /\ r.timestamp <= clock
          /\ Says(r.situation, r.version) # "unreadable"
      BY KnownRows DEF SxInv, SxRow, RowsInv, Proper
    <3> QED BY <3>1, <1>1, <1>2 DEF Proper, Says
  <2> QED BY <2>1, <2>2 DEF SxInv, RowsInv, Ordered
<1>6. (ResponsesInserted /\ StoredWhenDone)'
  BY <1>3 DEF SxInv, ResponsesInserted, StoredWhenDone, Stored
<1>7. (FlagsPast /\ FlagsFollowFeed)'
  BY <1>2, <1>3 DEF SxInv, SxTypeOK, FlagsPast, FlagsFollowFeed
<1> QED BY <1>4, <1>5, <1>6, <1>7 DEF SxInv

(* What is retrieved is ordered after all that is known. *)
LEMMA RetrieveKeeps ==
    ASSUME SxInv, NEW e \in Environments, Retrieve(e)
    PROVE  SxInv'
<1>1. /\ response' = [response EXCEPT ![e] = Rows(clock)]
      /\ pending' = [pending EXCEPT ![e] = Rows(clock)]
      /\ UNCHANGED <<feed, clock, link, stored, flagged, promised, flaggedAt, mishaps>>
  BY DEF Retrieve
<1>2. Rows(clock) \subseteq SxRow
  BY RowsOfFeed DEF SxInv
<1>3. SxTypeOK'
  <2>1. phase' \in [Environments -> {"idle", "retrieving", "inserting"}]
    BY DEF SxInv, SxTypeOK, Retrieve
  <2>2. response' \in [Environments -> SUBSET SxRow] /\ pending' \in [Environments -> SUBSET SxRow]
    BY <1>1, <1>2 DEF SxInv, SxTypeOK
  <2> QED BY <1>1, <2>1, <2>2 DEF SxInv, SxTypeOK, SxRow, Says
<1>4. RowsInv'
  <2>1. Known' \subseteq Known \cup Rows(clock)
    BY <1>1 DEF SxInv, SxTypeOK, Known
  <2>2. ASSUME NEW r \in Rows(clock) PROVE Proper(r)'
    <3>1. /\ r \in SxRow /\ r.version = feed[r.situation] /\ r.timestamp = clock
          /\ Says(r.situation, r.version) # "unreadable"
      BY RowsOfFeed DEF SxInv
    <3> QED BY <3>1, <1>1 DEF Proper, Says, SxRow
  <2>3. ASSUME NEW r \in Known PROVE Proper(r)'
    BY <1>1 DEF SxInv, RowsInv, Proper, Says
  <2>4. ASSUME NEW q \in Known', NEW r \in Known', q.situation = r.situation,
               q.version < r.version
        PROVE  q.timestamp < r.timestamp
    <3>1. CASE q \in Known /\ r \in Known
      BY <3>1, <2>4 DEF SxInv, RowsInv, Ordered
    <3>2. CASE q \in Known /\ r \in Rows(clock)
      <4>1. r.version = feed[r.situation] /\ r.timestamp = clock
        BY <3>2, RowsOfFeed DEF SxInv
      <4> QED BY <4>1, <3>2, <2>4 DEF SxInv, RowsInv, Proper
    <3>3. CASE q \in Rows(clock)
      <4>1. q.version = feed[q.situation]
        BY <3>3, RowsOfFeed DEF SxInv
      <4>2. r.version <= feed[r.situation] /\ r.version \in Nat /\ feed[r.situation] \in Nat
        <5>1. r \in SxRow
          BY <2>1, <1>2, KnownRows DEF SxInv
        <5>2. CASE r \in Known
          BY <5>1, <5>2, RowsOfFeed DEF SxInv, RowsInv, Proper, SxRow
        <5>3. CASE r \in Rows(clock)
          BY <5>1, <5>3, RowsOfFeed DEF SxInv, SxRow
        <5> QED BY <5>2, <5>3, <2>1
      <4> QED BY <4>1, <4>2, <2>4
    <3> QED BY <3>1, <3>2, <3>3, <2>1
  <2> QED BY <2>1, <2>2, <2>3, <2>4 DEF RowsInv, Ordered
<1>5. ResponsesInserted'
  BY <1>1 DEF SxInv, SxTypeOK, ResponsesInserted, Stored
<1>6. (StoredWhenDone /\ FlagsPast /\ FlagsFollowFeed)'
  BY <1>1 DEF SxInv, StoredWhenDone, FlagsPast, FlagsFollowFeed, Readable, Says
<1> QED BY <1>3, <1>4, <1>5, <1>6 DEF SxInv

(* A row that is left out has the same version in the table already. *)
LEMMA InsertKeeps ==
    ASSUME SxInv, NEW e \in Environments, InsertPage(e)
    PROVE  SxInv'
<1>1. PICK page \in SUBSET pending[e] :
         /\ stored' = stored \cup {r \in page : \A q \in stored : ~Conflict(r, q)}
         /\ pending' = [pending EXCEPT ![e] = @ \ page]
  BY DEF InsertPage
<1>2. UNCHANGED <<feed, clock, link, flagged, flaggedAt, mishaps>>
  BY DEF InsertPage
<1>3. \/ /\ pending'[e] = {}
         /\ phase' = [phase EXCEPT ![e] = "idle"]
         /\ promised' = promised \cup response[e]
         /\ response' = [response EXCEPT ![e] = {}]
      \/ UNCHANGED <<phase, promised, response>>
  BY DEF InsertPage
<1>4. /\ pending \in [Environments -> SUBSET SxRow] /\ response \in [Environments -> SUBSET SxRow]
      /\ stored \subseteq SxRow /\ promised \subseteq SxRow
      /\ page \subseteq response[e] /\ page \subseteq SxRow
  BY DEF SxInv, SxTypeOK, ResponsesInserted
<1>5. \A r \in page : r \in Known /\ Proper(r)
  BY <1>4 DEF SxInv, RowsInv, Known
<1>6. SxTypeOK'
  <2>1. phase' \in [Environments -> {"idle", "retrieving", "inserting"}]
    BY <1>3 DEF SxInv, SxTypeOK
  <2>2. response' \in [Environments -> SUBSET SxRow] /\ pending' \in [Environments -> SUBSET SxRow]
    BY <1>1, <1>3, <1>4
  <2>3. stored' \subseteq SxRow /\ promised' \subseteq SxRow
    BY <1>1, <1>3, <1>4
  <2>4. \A r \in stored' : r.version <= feed[r.situation]
                           /\ Says(r.situation, r.version) # "unreadable"
    BY <1>1, <1>5 DEF SxInv, SxTypeOK, Proper
  <2> QED BY <1>2, <2>1, <2>2, <2>3, <2>4 DEF SxInv, SxTypeOK, SxRow, Says
<1>7. RowsInv'
  <2>1. Known' \subseteq Known
    BY <1>1, <1>3, <1>4 DEF Known
  <2> QED BY <2>1, <1>2, FewerRows DEF SxInv
<1>8. \A r : Stored(r) => Stored(r)'
  BY <1>1 DEF Stored
<1>9. \A r \in page : Stored(r)'
  BY <1>1 DEF Stored, Conflict
<1>10. \A r \in response[e] \ pending'[e] : Stored(r)'
  BY <1>1, <1>4, <1>8, <1>9 DEF SxInv, ResponsesInserted
<1>11. ResponsesInserted'
  <2>1. ASSUME NEW d \in Environments PROVE pending'[d] \subseteq response'[d]
    BY <1>1, <1>3, <1>4 DEF SxInv, ResponsesInserted
  <2>2. ASSUME NEW d \in Environments, NEW r \in response'[d] \ pending'[d] PROVE Stored(r)'
    <3>1. CASE d = e
      BY <3>1, <2>2, <1>3, <1>4, <1>10
    <3>2. CASE d # e
      BY <3>2, <2>2, <1>1, <1>3, <1>4, <1>8 DEF SxInv, ResponsesInserted
    <3> QED BY <3>1, <3>2
  <2> QED BY <2>1, <2>2 DEF ResponsesInserted
<1>12. StoredWhenDone'
  <2>1. \A r \in promised : Stored(r)'
    BY <1>8 DEF SxInv, StoredWhenDone, Stored
  <2>2. \A r \in promised' : Stored(r)'
    BY <2>1, <1>3, <1>10
  <2> QED BY <2>2 DEF StoredWhenDone, Stored
<1>13. (FlagsPast /\ FlagsFollowFeed)'
  BY <1>2 DEF SxInv, FlagsPast, FlagsFollowFeed, Readable, Says
<1> QED BY <1>6, <1>7, <1>11, <1>12, <1>13 DEF SxInv

(* An invocation that raises forgets its response and leaves the table. *)
LEMMA AbortKeeps ==
    ASSUME SxInv, NEW e \in Environments, Abort(e),
           link' \in [Environments -> {"open", "broken", "closed"}], mishaps' \in Nat,
           UNCHANGED <<feed, clock, stored, flagged, promised, flaggedAt>>
    PROVE  SxInv'
<1>1. SxTypeOK'
  BY DEF SxInv, SxTypeOK, SxRow, Says, Abort
<1>2. RowsInv'
  <2>1. Known' \subseteq Known
    BY DEF SxInv, SxTypeOK, Known, Abort
  <2> QED BY <2>1, FewerRows DEF SxInv
<1>3. ResponsesInserted'
  BY DEF SxInv, SxTypeOK, ResponsesInserted, Stored, Abort
<1>4. (StoredWhenDone /\ FlagsPast /\ FlagsFollowFeed)'
  BY DEF SxInv, StoredWhenDone, FlagsPast, FlagsFollowFeed, Readable, Says
<1> QED BY <1>1, <1>2, <1>3, <1>4 DEF SxInv

(* Connections and phases alone change nothing that is stored. *)
LEMMA QuietKeeps ==
    ASSUME SxInv, phase' \in [Environments -> {"idle", "retrieving", "inserting"}],
           link' \in [Environments -> {"open", "broken", "closed"}], mishaps' \in Nat,
           UNCHANGED <<feed, clock, response, pending, stored, flagged, promised, flaggedAt>>
    PROVE  SxInv'
<1>1. SxTypeOK'
  BY DEF SxInv, SxTypeOK, SxRow, Says
<1>2. RowsInv'
  BY FewerRows DEF SxInv, Known
<1>3. (ResponsesInserted /\ StoredWhenDone /\ FlagsPast /\ FlagsFollowFeed)'
  BY DEF SxInv, ResponsesInserted, Stored, StoredWhenDone, FlagsPast, FlagsFollowFeed, Readable, Says
<1> QED BY <1>1, <1>2, <1>3 DEF SxInv

(* The flags are made of the last versions. *)
LEMMA FlagKeeps ==
    ASSUME SxInv, FlagCancelled
    PROVE  SxInv'
<1>1. UNCHANGED <<feed, clock, phase, response, pending, link, stored, promised, mishaps>>
  BY DEF FlagCancelled, invocation
<1>2. flaggedAt' \in {clock, NoTime} /\ clock \in Nat /\ flagged' \subseteq Situations
  BY DEF FlagCancelled, SxInv, SxTypeOK
<1>3. (SxTypeOK /\ FlagsPast)'
  BY <1>1, <1>2 DEF SxInv, SxTypeOK, SxRow, Says, FlagsPast
<1>4. (RowsInv /\ ResponsesInserted /\ StoredWhenDone)'
  BY <1>1, FewerRows DEF SxInv, Known, ResponsesInserted, Stored, StoredWhenDone
<1>5. FlagsFollowFeed'
  <2> SUFFICES ASSUME flaggedAt' = clock', NEW s \in Situations, Readable(s)'
               PROVE  s \in flagged' <=> Says(s, feed[s]) = "cancelled"
    BY <1>1 DEF FlagsFollowFeed, Says
  <2>1. Readable(s)
    BY <1>1 DEF Readable, Says
  <2>2. PICK r \in promised : r.situation = s /\ r.version = feed[s]
    BY <1>1, <1>2, <2>1 DEF FlagCancelled
  <2>3. PICK q \in stored : q.situation = s /\ q.version = feed[s]
    BY <2>2 DEF SxInv, StoredWhenDone
  <2>4. Latest(s) # {} /\ \A p \in Latest(s) : p.version = feed[s]
    BY <2>3, LatestIsLast DEF SxInv
  <2>5. s \in flagged' <=> Says(s, feed[s]) # "normalService"
    BY <2>4 DEF FlagCancelled, Cancelled
  <2>6. Says(s, feed[s]) \in Conditions \ {"unreadable"}
    BY <2>1, RowsOfFeed DEF SxInv, SxTypeOK, Readable, Says
  <2> QED BY <2>5, <2>6 DEF Conditions
<1> QED BY <1>3, <1>4, <1>5 DEF SxInv

LEMMA SxStep == SxInv /\ [SxNext]_sxVars => SxInv'
<1> SUFFICES ASSUME SxInv, [SxNext]_sxVars PROVE SxInv'
  OBVIOUS
<1>0. /\ phase \in [Environments -> {"idle", "retrieving", "inserting"}]
      /\ link \in [Environments -> {"open", "broken", "closed"}] /\ mishaps \in Nat
  BY DEF SxInv, SxTypeOK
<1>1. ASSUME NEW s \in Situations, Publish(s) PROVE SxInv'
  BY <1>1, PublishKeeps
<1>2. CASE FlagCancelled
  BY <1>2, FlagKeeps
<1>3. ASSUME NEW e \in Environments, EnsureConnection(e) PROVE SxInv'
  BY <1>3, <1>0, QuietKeeps DEF EnsureConnection
<1>4. ASSUME NEW e \in Environments, Retrieve(e) PROVE SxInv'
  BY <1>4, RetrieveKeeps
<1>5. ASSUME NEW e \in Environments, InsertPage(e) PROVE SxInv'
  BY <1>5, InsertKeeps
<1>6. ASSUME NEW e \in Environments, Unusable(e) PROVE SxInv'
  BY <1>6, <1>0, AbortKeeps DEF Unusable
<1>7. ASSUME NEW e \in Environments, CallRaises(e) PROVE SxInv'
  BY <1>7, <1>0, AbortKeeps DEF CallRaises, Mishap
<1>8. ASSUME NEW e \in Environments, DropLink(e) PROVE SxInv'
  BY <1>8, <1>0, QuietKeeps DEF DropLink, Mishap, invocation
<1>9. ASSUME NEW e \in Environments, EnvironmentDies(e) PROVE SxInv'
  BY <1>9, <1>0, AbortKeeps DEF EnvironmentDies, Mishap
<1>10. ASSUME NEW e \in Environments, Replace(e) PROVE SxInv'
  BY <1>10, <1>0, QuietKeeps DEF Replace, invocation
<1>11. CASE UNCHANGED sxVars
  BY <1>11, <1>0, QuietKeeps DEF sxVars, invocation
<1> QED
  BY <1>1, <1>2, <1>3, <1>4, <1>5, <1>6, <1>7, <1>8, <1>9, <1>10, <1>11 DEF SxNext, Import

(* Types, and that a stored row is one the feed had and could be read.      *)
THEOREM SituationsTyped == SxSpec => []SxTypeOK
<1>1. SxInv => SxTypeOK
  BY DEF SxInv
<1> QED BY <1>1, SxBegins, SxStep, PTL DEF SxSpec

(* However many invocations overlap, raise or die, with whatever feed and   *)
(* page size: what one retrieved is in the table when it has returned       *)
(* (insert_rows, ON CONFLICT DO NOTHING).                                   *)
THEOREM ImportedStays == SxSpec => []StoredWhenDone
<1>1. SxInv => StoredWhenDone
  BY DEF SxInv
<1> QED BY <1>1, SxBegins, SxStep, PTL DEF SxSpec

(* The flags made after a complete import are those of the feed: a row of   *)
(* an older response, inserted later, has an older timestamp                *)
(* (flag_cancelled_expected_journeys).                                      *)
THEOREM FlagsAreOfTheFeed == SxSpec => []FlagsFollowFeed
<1>1. SxInv => FlagsFollowFeed
  BY DEF SxInv
<1> QED BY <1>1, SxBegins, SxStep, PTL DEF SxSpec
=============================================================================
