-------------------------- MODULE SituationsImport --------------------------
(***************************************************************************)
(* The import of SIRI-SX situations (cancelled journeys): every five       *)
(* minutes an invocation retrieves all situations there are and inserts    *)
(* them page by page, ON CONFLICT DO NOTHING, so that each version is      *)
(* stored with the time of the first response it came in.                  *)
(* flag_cancelled_expected_journeys reads the latest of them per journey.  *)
(*                                                                         *)
(* Nothing keeps two invocations apart, in two environments of Lambda with *)
(* a connection each, opened when the environment starts.                  *)
(* ensure_db_connection opens a new one but gives it to its own parameter. *)
(* A situation is about one journey, and a response carries its time.      *)
(***************************************************************************)
EXTENDS Integers, Sequences, FiniteSets

CONSTANTS
    Situations,     \* by producer and situation number
    Versions,       \* Versions[s]: what the feed says of s, one after the other
    Unversioned,    \* the situations without a Version element
    Environments,   \* of the Lambda
    PageSize,       \* page_size of execute_batch
    MaxMishaps      \* bound: calls that raise, connections lost, invocations that die

Conditions == {"cancelled", "normalService", "unreadable"}

ASSUME SituationsAssumption ==
    /\ IsFiniteSet(Situations) /\ Unversioned \subseteq Situations
    /\ Versions \in [Situations -> Seq(Conditions)]
    /\ PageSize \in Nat \ {0} /\ MaxMishaps \in Nat

VARIABLES
    feed,           \* feed[s]: the version the feed has of s, 0 for none
    clock,          \* ResponseTimestamp: counts the changes of the feed
    phase,          \* phase[e]: how far the invocation in e has come
    link,           \* link[e]: conn
    response,       \* response[e]: the rows that were parsed
    pending,        \* pending[e]: those of them still to insert
    stored,         \* siri_sx_situations
    flagged,        \* is_cancelled: the situations whose journey is flagged
    promised,       \* observer: the rows of the invocations that returned
    flaggedAt,      \* observer: clock when the journeys were flagged, if all was there
    mishaps

invocation == <<phase, response, pending>>
sxVars == <<feed, clock, invocation, link, stored, flagged, promised, flaggedAt, mishaps>>

NoTime == -1
Says(s, n) == Versions[s][n]

Readable(s) == feed[s] # 0 /\ Says(s, feed[s]) # "unreadable"

SxInit ==
    /\ feed = [s \in Situations |-> 0] /\ clock = 0
    /\ phase = [e \in Environments |-> "idle"]
    /\ link = [e \in Environments |-> "open"]
    /\ response = [e \in Environments |-> {}] /\ pending = [e \in Environments |-> {}]
    /\ stored = {} /\ promised = {}
    /\ flagged = {} /\ flaggedAt = NoTime
    /\ mishaps = 0

Mishap == mishaps < MaxMishaps /\ mishaps' = mishaps + 1

\* External: the publisher has something new to say of s.
Publish(s) ==
    /\ feed[s] < Len(Versions[s])
    /\ feed' = [feed EXCEPT ![s] = @ + 1]
    /\ clock' = clock + 1
    /\ UNCHANGED <<invocation, link, stored, flagged, promised, flaggedAt, mishaps>>

\* parse_xml: an element that parse_situation_element cannot read is left out.
Rows(time) ==
    {[situation |-> s, version |-> feed[s], timestamp |-> time] :
        s \in {t \in Situations : Readable(t)}}

\* ensure_db_connection returns, and conn is what it was; where setup_db fails three
\* times it raises, and the invocation changes nothing.
EnsureConnection(e) ==
    /\ phase[e] = "idle"
    /\ phase' = [phase EXCEPT ![e] = "retrieving"]
    /\ UNCHANGED <<feed, clock, response, pending, link, stored, flagged, promised,
                   flaggedAt, mishaps>>

\* Mutant: one element that cannot be read raises.
RetrieveAllOrNothing(e) ==
    /\ phase[e] = "retrieving"
    /\ \A s \in Situations : feed[s] # 0 => Readable(s)
    /\ response' = [response EXCEPT ![e] = Rows(clock)]
    /\ pending' = [pending EXCEPT ![e] = Rows(clock)]
    /\ phase' = [phase EXCEPT ![e] = IF Rows(clock) = {} THEN "idle" ELSE "inserting"]
    /\ UNCHANGED <<feed, clock, link, stored, flagged, promised, flaggedAt, mishaps>>

\* "No rows to insert." ends the invocation.
Retrieve(e) ==
    /\ phase[e] = "retrieving"
    /\ response' = [response EXCEPT ![e] = Rows(clock)]
    /\ pending' = [pending EXCEPT ![e] = Rows(clock)]
    /\ phase' = [phase EXCEPT ![e] = IF Rows(clock) = {} THEN "idle" ELSE "inserting"]
    /\ UNCHANGED <<feed, clock, link, stored, flagged, promised, flaggedAt, mishaps>>

\* Mutant: ON CONFLICT (producer_ref, situation_number).
SameSituation(r, q) == r.situation = q.situation

\* ON CONFLICT (producer_ref, situation_number, version): null is no conflict.
Conflict(r, q) ==
    r.situation \notin Unversioned /\ r.situation = q.situation /\ r.version = q.version

\* One page of execute_batch, which is one transaction; the last one ends the invocation.
InsertPage(e) ==
    /\ phase[e] = "inserting" /\ link[e] = "open"
    /\ \E page \in SUBSET pending[e] :
         /\ Cardinality(page) <= PageSize
         /\ Cardinality(page) = PageSize \/ page = pending[e]
         /\ stored' = stored \cup {r \in page : \A q \in stored : ~Conflict(r, q)}
         /\ pending' = [pending EXCEPT ![e] = @ \ page]
    /\ IF pending'[e] = {}
       THEN /\ phase' = [phase EXCEPT ![e] = "idle"]
            /\ promised' = promised \cup response[e]
            /\ response' = [response EXCEPT ![e] = {}]
       ELSE UNCHANGED <<phase, promised, response>>
    /\ UNCHANGED <<feed, clock, link, flagged, flaggedAt, mishaps>>

\* The invocation raises; the pages that were inserted stay.
Abort(e) ==
    /\ phase' = [phase EXCEPT ![e] = "idle"]
    /\ response' = [response EXCEPT ![e] = {}]
    /\ pending' = [pending EXCEPT ![e] = {}]

\* The cursor, or the first statement, on a connection that is gone.
Unusable(e) ==
    /\ phase[e] = "inserting" /\ link[e] # "open"
    /\ Abort(e)
    /\ link' = [link EXCEPT ![e] = "closed"]
    /\ UNCHANGED <<feed, clock, stored, flagged, promised, flaggedAt, mishaps>>

\* requests.get, the parser or a statement raises.
CallRaises(e) ==
    /\ phase[e] # "idle"
    /\ Mishap
    /\ Abort(e)
    /\ UNCHANGED <<feed, clock, link, stored, flagged, promised, flaggedAt>>

-----------------------------------------------------------------------------
\* Mutant: ORDER BY event_timestamp without DESC.
Earliest(s) == {r \in stored : r.situation = s /\ \A q \in stored :
                                 q.situation = s => q.timestamp >= r.timestamp}

\* ORDER BY event_timestamp DESC
Latest(s) == {r \in stored : r.situation = s /\ \A q \in stored :
                               q.situation = s => q.timestamp <= r.timestamp}

\* condition != 'normalService', in the row DISTINCT ON takes
Cancelled(s) == \E r \in Latest(s) : Says(s, r.version) # "normalService"

FlagCancelled ==
    /\ flagged' = {s \in Situations : Cancelled(s)}
    /\ flaggedAt' = IF \A s \in Situations : Readable(s) =>
                         \E r \in promised : r.situation = s /\ r.version = feed[s]
                    THEN clock ELSE NoTime
    /\ UNCHANGED <<feed, clock, invocation, link, stored, promised, mishaps>>

-----------------------------------------------------------------------------
\* External: PostgreSQL and the environments of Lambda.

DropLink(e) ==
    /\ link[e] = "open"
    /\ Mishap
    /\ link' = [link EXCEPT ![e] = "broken"]
    /\ UNCHANGED <<feed, clock, invocation, stored, flagged, promised, flaggedAt>>

EnvironmentDies(e) ==
    /\ phase[e] # "idle"
    /\ Mishap
    /\ Abort(e)
    /\ link' = [link EXCEPT ![e] = "open"]
    /\ UNCHANGED <<feed, clock, stored, flagged, promised, flaggedAt>>

\* Lambda replaces an environment that has been there for some hours.
Replace(e) ==
    /\ phase[e] = "idle" /\ link[e] # "open"
    /\ link' = [link EXCEPT ![e] = "open"]
    /\ UNCHANGED <<feed, clock, invocation, stored, flagged, promised, flaggedAt, mishaps>>

Import(e) == EnsureConnection(e) \/ Retrieve(e) \/ InsertPage(e) \/ Unusable(e)

SxNext ==
    \/ \E s \in Situations : Publish(s)
    \/ FlagCancelled
    \/ \E e \in Environments :
         Import(e) \/ CallRaises(e) \/ DropLink(e) \/ EnvironmentDies(e) \/ Replace(e)

SxSpec == SxInit /\ [][SxNext]_sxVars

\* The schedule invokes for ever, and every environment is replaced now and then.
SxFairness == \A e \in Environments : WF_sxVars(Import(e)) /\ SF_sxVars(Replace(e))

SxFairSpec == SxSpec /\ SxFairness

-----------------------------------------------------------------------------
SxRow == [situation : Situations, version : Nat \ {0}, timestamp : Nat]

SxTypeOK ==
    /\ \A s \in Situations : feed[s] \in 0 .. Len(Versions[s])
    /\ clock \in Nat /\ mishaps \in Nat
    /\ phase \in [Environments -> {"idle", "retrieving", "inserting"}]
    /\ link \in [Environments -> {"open", "broken", "closed"}]
    /\ {response, pending} \subseteq [Environments -> SUBSET SxRow]
    /\ stored \subseteq SxRow /\ promised \subseteq SxRow
    /\ flagged \subseteq Situations /\ flaggedAt \in Nat \cup {NoTime}
    /\ \A r \in stored : r.version <= feed[r.situation]
                         /\ Says(r.situation, r.version) # "unreadable"

(* What an invocation retrieved is in the table when it returns, whatever   *)
(* other invocations insert in between, and stays there ("All rows parsed   *)
(* and inserted").                                                          *)
StoredWhenDone == \A r \in promised : \E q \in stored :
    q.situation = r.situation /\ q.version = r.version

(* Once everything the feed says was imported and the journeys are flagged, *)
(* the flags are those of the feed, also where an invocation that retrieved *)
(* an older response is still inserting it (ON CONFLICT, and the order by   *)
(* event_timestamp in flag_cancelled_expected_journeys).                    *)
FlagsFollowFeed ==
    flaggedAt = clock => \A s \in Situations : Readable(s) =>
        (s \in flagged <=> Says(s, feed[s]) = "cancelled")

(* "Database connection closed, reconnecting...": what runs after            *)
(* ensure_db_connection has a connection. Not kept by the code: see the     *)
(* README, disagreements.                                                   *)
ConnectionEnsured == \A e \in Environments : phase[e] = "retrieving" => link[e] # "closed"

(* When the feed has nothing new, all that can be read of it is stored in   *)
(* the end: what cannot be read, or a connection that is gone, costs the     *)
(* rest of the response nothing but time.                                   *)
Imported == \A s \in Situations : Readable(s) =>
    \E r \in stored : r.situation = s /\ r.version = feed[s]

EventuallyImported == <>[]Imported
=============================================================================
