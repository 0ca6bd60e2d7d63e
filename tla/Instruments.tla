----------------------------- MODULE Instruments -----------------------------
(***************************************************************************)
(* When two scores may be compared: extraction-eval-sets/lab/version.py.   *)
(* A score depends on the labels, on the normalizers and on the system;    *)
(* a snapshot keeps the score with a stamp of the first two.  The          *)
(* behaviour of the normalizers is hashed on fixed probes; a hash is       *)
(* modelled by what is hashed.                                             *)
(***************************************************************************)
EXTENDS Naturals, FiniteSets

CONSTANTS
    Item,           \* labelled items
    Form,           \* raw values a label or a prediction may have
    Probes          \* PROBES

ASSUME InstrumentAssumption == Probes \subseteq Form /\ IsFiniteSet(Item)

VARIABLES
    labels,         \* GOLD: one raw value per item
    normalizer,     \* NORMALIZERS: the normal form of each raw value
    policyFile,     \* which text policy.py holds
    predictions,    \* what the system answers
    baseline        \* the snapshot taken first

instVars == <<labels, normalizer, policyFile, predictions, baseline>>

Normalizers == [Form -> Form]

\* scoring applies the normalizer to both sides
Correct == {i \in Item : normalizer[labels[i]] = normalizer[predictions[i]]}
Score == Cardinality(Correct)

\* behavior_hash(): what the normalizers do on the probes
BehaviourHash == [p \in Probes |-> normalizer[p]]

Stamp == [gold |-> labels, policy_src |-> policyFile, policy_behavior |-> BehaviourHash]
Snapshot == [stamp |-> Stamp, score |-> Score]

\* a comparison that trusts the hash of the policy's source text
Comparable_SourceText(a, b) ==
    /\ a.stamp.gold = b.stamp.gold
    /\ a.stamp.policy_src = b.stamp.policy_src

\* compare(): the two stamps that refuse
Comparable(a, b) ==
    /\ a.stamp.gold = b.stamp.gold
    /\ a.stamp.policy_behavior = b.stamp.policy_behavior

InstTypeOK ==
    /\ labels \in [Item -> Form] /\ predictions \in [Item -> Form]
    /\ normalizer \in Normalizers
    /\ policyFile \in BOOLEAN
    /\ baseline.score \in 0..Cardinality(Item)

InstInit ==
    /\ labels \in [Item -> Form] /\ predictions \in [Item -> Form]
    /\ normalizer \in Normalizers
    /\ policyFile = FALSE
    /\ baseline = Snapshot

\* the ruler moves: normalizers swapped at runtime, the file untouched
SwapNormalizers(n) ==
    /\ normalizer' = n
    /\ UNCHANGED <<labels, policyFile, predictions, baseline>>

\* the file is edited and loaded: its text changes, its behaviour may
EditPolicy(n) ==
    /\ normalizer' = n /\ policyFile' = ~policyFile
    /\ UNCHANGED <<labels, predictions, baseline>>

\* the target moves: a label is corrected
CorrectLabel(i, v) ==
    /\ labels' = [labels EXCEPT ![i] = v]
    /\ UNCHANGED <<normalizer, policyFile, predictions, baseline>>

\* the system moves
ChangeSystem(i, v) ==
    /\ predictions' = [predictions EXCEPT ![i] = v]
    /\ UNCHANGED <<labels, normalizer, policyFile, baseline>>

InstNext ==
    \/ \E n \in Normalizers : SwapNormalizers(n) \/ EditPolicy(n)
    \/ \E i \in Item, v \in Form : CorrectLabel(i, v) \/ ChangeSystem(i, v)

InstSpec == InstInit /\ [][InstNext]_instVars

-----------------------------------------------------------------------------
\* what the system alone would have scored under the baseline's instrument
UnderBaseline ==
    Cardinality({i \in Item :
        baseline.stamp.policy_behavior[baseline.stamp.gold[i]]
            = baseline.stamp.policy_behavior[predictions[i]]})

\* "Comparable ... this is the system": if the probes cover the raw values in
\* use, two comparable scores differ by what the system did and by nothing
\* else, whatever was swapped, edited or corrected in between; and a score is
\* refused only if a label or the behaviour of the policy really changed.
ScoresAreTheSystem ==
    LET now == Snapshot
        covered == Probes = Form
    IN  /\ Comparable(baseline, now) /\ covered => now.score = UnderBaseline
        /\ ~Comparable(baseline, now) =>
              \/ labels # baseline.stamp.gold
              \/ \E p \in Probes : normalizer[p] # baseline.stamp.policy_behavior[p]
=============================================================================
