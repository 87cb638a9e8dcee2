----------------------------- MODULE LineTracking -----------------------------
(***************************************************************************)
(* scribo::internal::traversal, the detection of line segments: the        *)
(* columns of an image are read one after the other, the dark runs of a    *)
(* column are matched with trackers that are kept in buckets, by position, *)
(* and a tracker that ends becomes a segment if it is long enough.  The    *)
(* positions are doubled, a run being centered on a pixel or between two.  *)
(***************************************************************************)
EXTENDS Integers, FiniteSets, SequencesExt

CONSTANTS TMax,            \* t_max, the number of columns
          NMax,            \* n_max, the number of pixels of a column
          Columns,         \* the columns: the sequences of their runs
          Descriptors,     \* the parameters: [tracking_type, extraction_type, gains]
          GainUnit,        \* the gain of a filter that follows its observations
          BucketSize, Sigma, SigmaThickness, MaxThickness, MinNbValuesSigma, NbValuesToKeep,
          DiscontinuityAbsolute, DiscontinuityRelative, MinimumForFusion, MinLengthEmbryo,
          SlopeThreshold   \* the number of values from which a slope is too high

(* What an observation is made of. *)
Run == [pos : Nat, thick : Nat]

ASSUME LineTrackingAssumption ==
    /\ NMax \in Nat /\ BucketSize \in 1 .. NMax
    /\ \A c \in Columns : c \in Seq(Run)
    /\ Sigma \in Nat /\ MaxThickness \in Nat /\ MinimumForFusion \in Nat
    /\ GainUnit \in Nat \ {0}
    /\ \A d \in Descriptors : d.gains \subseteq [pos : 0 .. GainUnit, slope : 0 .. GainUnit]

isolated_point == 2

VARIABLES
    t,            \* the current column
    pc,           \* "predict", "match", "select" or "end"
    descriptor,   \* the parameters of this traversal
    observations, \* the runs of the column that are not matched yet
    m_container,  \* the buckets
    trackers,     \* the active trackers, as long as they are not in the buckets
    new_trackers, \* those that begin at this column
    kept,         \* trackers_to_keep
    fi,           \* the rank of the tracker that is considered
    id,           \* the number of the observations matched
    segments,     \* the segments, as the sequences of their spans
    born,         \* the number of trackers created, which gives them their names
    ended,        \* the names of those that were given up or became a segment
    column        \* what happened to the runs: [obs, accepted, missed]

vars == <<t, pc, descriptor, observations, m_container, trackers, new_trackers, kept, fi, id,
          segments, born, ended, column>>

NoObservation == [match_count |-> 0]

Distance(a, b) == IF a < b THEN b - a ELSE a - b

(* Tracker_impl: the values it keeps and the spans it gave up are spans, and *)
(* under is the column at which it was last seen under another object.  S is *)
(* what the predictor keeps, to half a pixel: a position, a slope and a      *)
(* thickness.                                                                *)
NewTracker(name, obs) ==
    [name |-> name, first |-> t, last_integration |-> t, spans |-> <<[t |-> t, obs |-> obs]>>,
     S |-> [pos |-> obs.pos, slope |-> 0, thick |-> obs.thick], predicted |-> 0, observation |-> NoObservation, distance |-> 0, same |-> <<>>, under |-> -1]

Position(f) == Last(f.spans).obs.pos
Thickness(f) == f.S.thick

(* The number of values a tracker keeps. *)
Values(f) == Min({Len(f.spans), NbValuesToKeep})

-----------------------------------------------------------------------------
(* Buckets *)
BucketCount == (NMax + BucketSize - 1) \div BucketSize

(* A position is cut to an integer. *)
BucketNumber(pos) == Min({BucketCount - 1, (pos \div 2) \div BucketSize})

Inserted(container, f) == [container EXCEPT ![BucketNumber(Position(f))] = Append(@, f)]

EmptyBuckets == [b \in 0 .. BucketCount - 1 |-> <<>>]

(* acquire, and what follows each observation. *)
AllInserted(container, s) == FoldLeft(Inserted, container, s)

(* The trackers of all the buckets, as release gives them back. *)
Released(container) == FlattenSeq([b \in 1 .. BucketCount |-> container[b - 1]])

(* The elements of s at the ranks in I, in the same order. *)
Selected(s, I) ==
    LET selected[a \in 0 .. Len(s)] ==
            IF a = 0 THEN <<>>
            ELSE IF a \in I THEN Append(selected[a - 1], s[a]) ELSE selected[a - 1]
    IN  selected[Len(s)]

(* Mutant: the buckets next to those of the interval are not visited. *)
ExactWindow(obs) ==
    LET reach == Max({obs.thick, IF \E b \in DOMAIN m_container : m_container[b] # <<>> THEN 2 * Sigma ELSE 0})
    IN  BucketNumber(Max({obs.pos - reach, 0})) .. BucketNumber(obs.pos + reach)

(* The buckets find_match visits; max_sigma_pos is that of the trackers. *)
Window(obs) ==
    LET reach == Max({obs.thick, IF \E b \in DOMAIN m_container : m_container[b] # <<>> THEN 2 * Sigma ELSE 0})
    IN  Max({0, BucketNumber(Max({obs.pos - reach, 0})) - 1})
        .. Min({BucketCount - 1, BucketNumber(obs.pos + reach) + 1})

-----------------------------------------------------------------------------
Init ==
    /\ t = 0
    /\ pc = "predict"
    /\ descriptor \in Descriptors
    /\ observations = <<>>
    /\ m_container = EmptyBuckets
    /\ trackers = <<>> /\ new_trackers = <<>> /\ kept = <<>>
    /\ fi = 1
    /\ id = 0
    /\ segments = <<>>
    /\ born = 0
    /\ ended = {}
    /\ column = {}

(* make_predictions: a Kalman filter moves its own state, column after       *)
(* column, while the other predictors start again from what they integrated. *)
Predicted(f) ==
    [f EXCEPT !.predicted = f.S.pos + f.S.slope,
              !.S.pos = IF descriptor.tracking_type = "KALMAN" THEN @ + f.S.slope ELSE @,
              !.observation = NoObservation]

(* extract_observations and acquire *)
NextColumn ==
    /\ pc = "predict" /\ t < TMax
    /\ observations' \in Columns
    /\ m_container' = AllInserted(EmptyBuckets, [a \in DOMAIN trackers |-> Predicted(trackers[a])])
    /\ trackers' = <<>> /\ new_trackers' = <<>>
    /\ id' = 0
    /\ column' = {}
    /\ pc' = "match"
    /\ UNCHANGED <<t, descriptor, kept, fi, segments, born, ended>>

(* The run of the observation, rounded outwards, meets that of the prediction. *)
Meets(f, obs) ==
    LET half == 2 * (Thickness(f) \div 2)
    IN  /\ f.predicted + half >= 2 * ((obs.pos - obs.thick) \div 2)
        /\ -2 * ((-obs.pos - obs.thick) \div 2) >= f.predicted - half

(* Once a tracker has enough values, its thickness may not jump. *)
Thicker(f, obs) ==
    /\ Values(f) > MinNbValuesSigma
    /\ 2 * obs.thick > 3 * Thickness(f)
    /\ Distance(Thickness(f), obs.thick) > 3

(* accepts: the observation is close to the prediction and, in a binary      *)
(* image, meets it.                                                          *)
accepts(f, obs) ==
    /\ ~Thicker(f, obs)
    /\ descriptor.extraction_type = "BINARY" => Meets(f, obs)
    /\ Distance(f.predicted, obs.pos) <= 2 * Sigma
    /\ Distance(Thickness(f), obs.thick) <= SigmaThickness

(* intersect: more than half a pixel, rounded, is common to both. *)
Intersects(f, obs) ==
    Min({obs.pos + obs.thick, f.predicted + Thickness(f)})
        > Max({obs.pos - obs.thick, f.predicted - Thickness(f)})

Found(f, obs) == obs.thick < MaxThickness /\ accepts(f, obs)

(* A bucket: the ranks of the trackers that accept, these and the others. *)
FoundIn(b, obs) == {a \in DOMAIN m_container[b] : Found(m_container[b][a], obs)}
Here(b, obs) == Selected(m_container[b], FoundIn(b, obs))
Left(b, obs) == Selected(m_container[b], DOMAIN m_container[b] \ FoundIn(b, obs))

(* The trackers that find_match takes from the buckets. *)
Accepted(obs) ==
    FlattenSeq([b \in 1 .. BucketCount |-> IF b - 1 \in Window(obs) THEN Here(b - 1, obs) ELSE <<>>])

(* A tracker of a visited bucket that does not accept the observation. *)
PassedOver(f, obs) ==
    IF f.observation = NoObservation /\ Intersects(f, obs) THEN [f EXCEPT !.under = t] ELSE f

(* What find_match leaves in the buckets. *)
Others(obs) ==
    [b \in DOMAIN m_container |->
        IF b \in Window(obs)
        THEN [a \in DOMAIN Left(b, obs) |-> PassedOver(Left(b, obs)[a], obs)]
        ELSE m_container[b]]

(* Mutant: the observation a tracker had is forgotten. *)
GivenUpNone(f, o) == NoObservation

(* choose_nearest: what the tracker has after it, and what it gives up. *)
Nearer(f, o) ==
    \/ f.observation = NoObservation
    \/ Distance(o.obs.pos, f.predicted) \div 2 < f.distance

Chosen(f, o) ==
    IF Nearer(f, o)
    THEN [f EXCEPT !.observation = o, !.distance = Distance(o.obs.pos, f.predicted) \div 2]
    ELSE f

GivenUp(f, o) == IF Nearer(f, o) THEN f.observation ELSE o

(* handle_find_tracker: an observation that is given up starts a tracker if *)
(* no other tracker was found for it; the count that is decremented is that *)
(* of a copy.                                                               *)
AllGivenUp(accepted, o) == [a \in DOMAIN accepted |-> GivenUp(accepted[a], o)]

Restarts(s) == {a \in DOMAIN s : s[a] # NoObservation /\ s[a].match_count - 1 = 0}

StartFrom(accepted, o) == Selected(AllGivenUp(accepted, o), Restarts(AllGivenUp(accepted, o)))

(* One observation of match_observations_to_predictions. *)
Match ==
    /\ pc = "match" /\ observations # <<>>
    /\ LET obs      == Head(observations)
           accepted == Accepted(obs)
           o        == [obs |-> obs, match_count |-> Len(accepted), t |-> t, id |-> id]
           alone    == accepted = <<>> /\ obs.thick < MaxThickness
           starts   == IF alone THEN <<obs>>
                       ELSE [a \in DOMAIN StartFrom(accepted, o) |-> StartFrom(accepted, o)[a].obs]
       IN  /\ m_container' = AllInserted(Others(obs), [a \in DOMAIN accepted |-> Chosen(accepted[a], o)])
           /\ new_trackers' = new_trackers \o
                  [a \in DOMAIN starts |-> NewTracker(born + a - 1, starts[a])]
           /\ born' = born + Len(starts)
           /\ id' = IF alone THEN id ELSE id + 1
           /\ column' = column \cup
                  {[obs |-> obs, accepted |-> Len(accepted),
                    missed |-> {f \in Range(Released(m_container)) : Found(f, obs)} \ Range(accepted)]}
    /\ observations' = Tail(observations)
    /\ UNCHANGED <<t, pc, descriptor, trackers, kept, fi, segments, ended>>

(* release *)
Release ==
    /\ pc = "match" /\ observations = <<>>
    /\ trackers' = Released(m_container)
    /\ m_container' = EmptyBuckets
    /\ kept' = <<>>
    /\ fi' = 1
    /\ pc' = "select"
    /\ UNCHANGED <<t, descriptor, observations, new_trackers, id, segments, born, ended, column>>

-----------------------------------------------------------------------------
(* tracker_selection, one action per tracker *)

(* The spans of the segment of a tracker, without the last ones. *)
SpansOf(f, nb_to_remove) == SubSeq(f.spans, 1, Len(f.spans) - nb_to_remove)

(* need_fusion: the last observations that were shared have the same names. *)
LastOf(s) == SubSeq(s, Len(s) - MinimumForFusion + 1, Len(s))

need_fusion(f, g) == LastOf(f.same) = LastOf(g.same)

(* Mutant: the last tracker is dropped, without having taken that place. *)
ErasedWithoutSwap(s, r) ==
    LET f == s.trackers[r]
    IN  [s EXCEPT !.trackers = Front(@),
                  !.ended = @ \cup {f.name},
                  !.segments = IF f.last_integration - f.first - MinimumForFusion > MinLengthEmbryo
                               THEN Append(@, SpansOf(f, MinimumForFusion)) ELSE @]

(* erase_tracker, on [trackers, segments, ended, fj, deleted]: the last      *)
(* tracker takes the place of the one that is erased.                        *)
Erased(s, r) ==
    LET f == s.trackers[r]
    IN  [s EXCEPT !.trackers = Front([s.trackers EXCEPT ![r] = Last(s.trackers)]),
                  !.ended = @ \cup {f.name},
                  !.segments = IF f.last_integration - f.first - MinimumForFusion > MinLengthEmbryo
                               THEN Append(@, SpansOf(f, MinimumForFusion)) ELSE @]

(* One turn of the loop of make_potential_fusion. *)
Fused(s) ==
    LET f == s.trackers[fi]
        g == s.trackers[s.fj]
    IN  IF s.deleted \/ s.fj > Len(s.trackers) THEN s
        ELSE IF Len(g.same) > MinimumForFusion /\ g.observation # NoObservation /\ need_fusion(f, g)
        THEN IF f.first < g.first THEN Erased(s, s.fj) ELSE [Erased(s, fi) EXCEPT !.deleted = TRUE]
        ELSE [s EXCEPT !.fj = @ + 1]

make_potential_fusion ==
    FoldLeft(LAMBDA s, turn : Fused(s),
             [trackers |-> trackers, segments |-> segments, ended |-> ended, fj |-> fi + 1, deleted |-> FALSE],
             trackers)

(* The early stop is up to the values of the tracker, which ends silently. *)
IsSteep(f) == Values(f) > SlopeThreshold

Selecting == pc = "select" /\ fi <= Len(trackers)

StopSteep ==
    /\ Selecting
    /\ IsSteep(trackers[fi])
    /\ ended' = ended \cup {trackers[fi].name}
    /\ fi' = fi + 1
    /\ UNCHANGED <<t, pc, descriptor, observations, m_container, trackers, new_trackers, kept, id,
                   segments, born, column>>

(* integrate: the predictor corrects its state by a part of the difference   *)
(* between the observation and the prediction.                               *)
Correction(gain, difference) == (gain * difference) \div GainUnit

Integrated(f, gain) ==
    [f EXCEPT !.last_integration = t,
              !.S = [pos   |-> f.predicted + Correction(gain.pos, f.observation.obs.pos - f.predicted),
                     slope |-> @.slope + Correction(gain.slope, f.observation.obs.pos - f.predicted),
                     thick |-> @.thick + Correction(gain.pos, f.observation.obs.thick - @.thick)],
              !.spans = Append(@, [t |-> t, obs |-> f.observation.obs]),
              !.same = IF f.observation.match_count # 1
                       THEN Append(@, f.observation.id * f.observation.t) ELSE <<>>]

Integrate ==
    /\ Selecting
    /\ trackers[fi].observation # NoObservation
    /\ \E s \in {IF Len(trackers[fi].same) >= MinimumForFusion THEN make_potential_fusion
                 ELSE [trackers |-> trackers, segments |-> segments, ended |-> ended, deleted |-> FALSE]} :
          /\ trackers' = s.trackers
          /\ segments' = s.segments
          /\ ended' = s.ended
          /\ IF s.deleted THEN UNCHANGED <<kept, fi>>
             ELSE \E gain \in descriptor.gains :
                    kept' = Append(kept, Integrated(s.trackers[fi], gain)) /\ fi' = fi + 1
    /\ UNCHANGED <<t, pc, descriptor, observations, m_container, new_trackers, id, born, column>>

tracker_has_to_continue(f) ==
    /\ f.last_integration - f.first > isolated_point
    /\ \/ 100 * (t - f.last_integration)
              <= DiscontinuityRelative * (f.last_integration - f.first) + 100 * DiscontinuityAbsolute
       \/ f.under = t

Continue ==
    /\ Selecting
    /\ trackers[fi].observation = NoObservation
    /\ tracker_has_to_continue(trackers[fi])
    /\ kept' = Append(kept, trackers[fi])
    /\ fi' = fi + 1
    /\ UNCHANGED <<t, pc, descriptor, observations, m_container, trackers, new_trackers, id,
                   segments, born, ended, column>>

Ended(f) ==
    /\ segments' = IF f.last_integration - f.first > MinLengthEmbryo
                   THEN Append(segments, SpansOf(f, 0)) ELSE segments
    /\ ended' = ended \cup {f.name}

Stop ==
    /\ Selecting
    /\ trackers[fi].observation = NoObservation
    /\ ~tracker_has_to_continue(trackers[fi])
    /\ Ended(trackers[fi])
    /\ fi' = fi + 1
    /\ UNCHANGED <<t, pc, descriptor, observations, m_container, trackers, new_trackers, kept, id,
                   born, column>>

(* get_active_trackers *)
EndColumn ==
    /\ pc = "select" /\ fi > Len(trackers)
    /\ trackers' = new_trackers \o kept
    /\ new_trackers' = <<>> /\ kept' = <<>>
    /\ t' = t + 1
    /\ pc' = IF t' = TMax THEN "finish" ELSE "predict"
    /\ fi' = 1
    /\ UNCHANGED <<descriptor, observations, m_container, id, segments, born, ended, column>>

(* finish_traversal *)
FinishTraversal ==
    /\ pc = "finish"
    /\ IF fi <= Len(trackers) THEN Ended(trackers[fi]) /\ fi' = fi + 1 /\ UNCHANGED <<trackers, pc>>
       ELSE trackers' = <<>> /\ pc' = "end" /\ UNCHANGED <<segments, ended, fi>>
    /\ UNCHANGED <<t, descriptor, observations, m_container, new_trackers, kept, id, born, column>>

Next ==
    \/ NextColumn \/ Match \/ Release
    \/ StopSteep \/ Integrate \/ Continue \/ Stop
    \/ EndColumn \/ FinishTraversal

Spec == Init /\ [][Next]_vars

-----------------------------------------------------------------------------
(***************************************************************************)
(* find_match visits a few buckets around an observation, while a tracker  *)
(* is in the bucket of its last position: one that accepts the observation *)
(* is missed only if it strayed, that is, if its prediction is more than a *)
(* bucket away from the last value it integrated.  (It is then, against    *)
(* the comment of find_match: a Kalman filter that integrates nothing      *)
(* under an object moves its prediction away from its bucket.)             *)
(***************************************************************************)
Strayed(f) == Distance(f.predicted, Position(f)) > 2 * BucketSize

OnlyStrayedAreMissed == \A c \in column : \A f \in c.missed : Strayed(f)

(***************************************************************************)
(* While a column is matched, a thin observation is lost in a single case: *)
(* several trackers were found for it and each of them holds another one   *)
(* that is not farther, whatever the order of the observations.  Otherwise *)
(* a tracker holds it, or begins with it, though the tracker it was found  *)
(* for may have preferred a later one.  (The count of the matches is       *)
(* decremented in a copy, so that the observations several trackers give   *)
(* up begin none.)                                                         *)
(***************************************************************************)
Matched == UNION {Range(m_container[b]) : b \in DOMAIN m_container}

Remains(obs) ==
    \/ \E f \in Range(new_trackers) : Last(f.spans).obs = obs
    \/ \E f \in Matched : f.observation # NoObservation /\ f.observation.obs = obs

FoundFor(f, obs) == Found(f, obs) /\ BucketNumber(Position(f)) \in Window(obs)

Outbid(f, obs) ==
    /\ f.observation # NoObservation
    /\ Distance(f.observation.obs.pos, f.predicted) \div 2 <= Distance(obs.pos, f.predicted) \div 2

LostObservationsAreOutbid ==
    pc = "match" => \A c \in column :
        \/ c.obs.thick >= MaxThickness
        \/ Remains(c.obs)
        \/ c.accepted > 1 /\ \A f \in Matched : FoundFor(f, c.obs) => Outbid(f, c.obs)

(***************************************************************************)
(* A tracker is neither lost nor duplicated: each one that was created is  *)
(* either active, in a single one of the containers, or was explicitly     *)
(* ended, though trackers are moved between the containers, and erased     *)
(* from the one that is traversed.                                         *)
(***************************************************************************)
Active ==
    Released(m_container)
    \o (IF pc \in {"select", "finish"} THEN SubSeq(trackers, fi, Len(trackers)) ELSE trackers)
    \o kept \o new_trackers

TrackersAreConserved ==
    \E names \in {[r \in DOMAIN Active |-> Active[r].name]} :
        /\ \A r, s \in DOMAIN names : names[r] = names[s] => r = s
        /\ Range(names) \cap ended = {}
        /\ Range(names) \cup ended = 0 .. born - 1
=============================================================================
