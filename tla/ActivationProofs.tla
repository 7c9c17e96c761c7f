---------------------------- MODULE ActivationProofs ----------------------------
(***************************************************************************)
(* Theorems about Activation, for any projects, setups and numbers of      *)
(* events.                                                                 *)
(***************************************************************************)
EXTENDS Activation, TLAPS

\* A project that is in a set is the innermost one of it around itself.
LEMMA NearestSelf == \A r \in Roots : \A S : r \in S => nearest(r, S) = r
<1> SUFFICES ASSUME NEW r \in Roots, NEW S, r \in S
             PROVE  nearest(r, S) = r
  OBVIOUS
<1> DEFINE found == {i \in DOMAIN Enclosing[r] : Enclosing[r][i] \in S}
<1>1. found \subseteq Nat \ {0} /\ 1 \in found
  BY EnclosingAssumption
<1>2. (CHOOSE i \in found : \A j \in found : i <= j) = 1
  <2> HIDE DEF found
  <2>1. \A j \in found : 1 <= j
    BY <1>1
  <2>2. \A i \in found : (\A j \in found : i <= j) => i = 1
    BY <1>1
  <2> QED  BY <1>1, <2>1, <2>2
<1> QED  BY <1>1, <1>2, EnclosingAssumption DEF nearest

-------------------------------------------------------------------------------
(* The invariant *)

\* What a setup has written when it has come to a step.
Progress ==
    \A s \in Setups :
        /\ pc[s] # "idle" => root[s] \in Roots
        /\ pc[s] \in {"configure", "write", "roots", "mark", "finish"} => root[s] \in registered
        /\ pc[s] \in {"again", "roots", "mark", "finish"} => root[s] \in configured
        /\ pc[s] = "mark" => root[s] \in markers \cup todo[s] /\ legacy \subseteq markers \cup todo[s]
        /\ pc[s] = "finish" => root[s] \in markers

\* The configuration file is as its only writer has read it.
ExclusiveWriter ==
    \A s \in Setups : (pc[s] = "write" => lock = s /\ seen[s] = configured)

Migrated == complete => legacy \subseteq markers

\* A boundary is one of the journal's numbers.
BoundaryRecorded == \A r \in Roots : boundary[r] # None => boundary[r] <= events

IInv == TypeOK /\ Progress /\ ExclusiveWriter /\ Migrated /\ setUp \subseteq configured
        /\ BoundaryRecorded /\ RecordedFromSetup

LEMMA InitIInv == Init => IInv
<1> SUFFICES ASSUME Init PROVE IInv
  OBVIOUS
<1>1. TypeOK
  <2>1. events \in 0 .. MaxEvents
    BY BoundAssumption DEF Init
  <2>2. complete \in BOOLEAN
    BY DEF Init
  <2>3. /\ pc \in [Setups -> {"idle", "register", "configure", "write", "roots", "mark", "finish", "again"}]
        /\ lock \in Setups \cup {None} /\ root \in [Setups -> Roots \cup {None}]
        /\ seen \in [Setups -> SUBSET registered] /\ todo \in [Setups -> SUBSET registered]
    BY DEF Init
  <2>4. boundary \in [Roots -> Nat \cup {None}] /\ since \in [Roots -> Nat \cup {None}]
    BY DEF Init
  <2>5. /\ legacy \subseteq registered /\ registered \subseteq Roots
        /\ configured \subseteq registered /\ markers \subseteq registered /\ setUp \subseteq markers
    BY DEF Init
  <2> QED  BY <2>1, <2>2, <2>3, <2>4, <2>5 DEF TypeOK
<1>2. Progress /\ ExclusiveWriter /\ Migrated /\ setUp \subseteq configured
  BY DEF Init, Progress, ExclusiveWriter, Migrated
<1>3. BoundaryRecorded /\ RecordedFromSetup
  BY DEF Init, BoundaryRecorded, RecordedFromSetup
<1> QED  BY <1>1, <1>2, <1>3 DEF IInv

LEMMA NextIInv == IInv /\ [Next]_vars => IInv'
<1> SUFFICES ASSUME IInv, [Next]_vars PROVE IInv'
  OBVIOUS
<1> USE NoneAssumption, BoundAssumption
<1> USE DEF IInv, TypeOK, Progress, ExclusiveWriter, Migrated, BoundaryRecorded, RecordedFromSetup
<1>1. ASSUME NEW s \in Setups, NEW r \in Roots, Begin(s, r) PROVE IInv'
  BY <1>1 DEF Begin, goto, files
<1>2. ASSUME NEW s \in Setups, Register(s) PROVE IInv'
  BY <1>2 DEF Register, goto
<1>3. ASSUME NEW s \in Setups, ReadConfiguration(s) PROVE IInv'
  BY <1>3 DEF ReadConfiguration, goto, files
<1>4. ASSUME NEW s \in Setups, WriteConfiguration(s) PROVE IInv'
  BY <1>4 DEF WriteConfiguration, goto
<1>5. ASSUME NEW s \in Setups, ReadRoots(s) PROVE IInv'
  BY <1>5 DEF ReadRoots, goto, files
<1>6. ASSUME NEW s \in Setups, NEW r \in Roots, SaveMarker(s, r) PROVE IInv'
  BY <1>6 DEF SaveMarker
<1>7. ASSUME NEW s \in Setups, SaveMigrationComplete(s) PROVE IInv'
  BY <1>7 DEF SaveMigrationComplete, goto
<1>8. ASSUME NEW s \in Setups, Finish(s) PROVE IInv'
  <2> DEFINE r == root[s]
  <2>1. r \in Roots /\ r \in configured /\ (pc[s] = "finish" => r \in markers)
    BY <1>8 DEF Finish
  <2>2. boundaryOf(r) \in Nat /\ boundaryOf(r) <= events /\ (boundary[r] # None => boundaryOf(r) = boundary[r])
    BY <2>1 DEF boundaryOf
  <2>3. boundary' = [boundary EXCEPT ![r] = boundaryOf(r)]
        /\ since' = [since EXCEPT ![r] = IF @ = None THEN events ELSE @]
    BY <1>8 DEF Finish
  <2>4. BoundaryRecorded' /\ RecordedFromSetup'
    <3> SUFFICES ASSUME NEW q \in Roots, since'[q] # None
                 PROVE  boundary'[q] # None /\ boundary'[q] <= since'[q]
      <4>1. events' = events
        BY <1>8 DEF Finish
      <4> QED  BY <2>1, <2>2, <2>3, <4>1
    <3>1. CASE q = r
      BY <2>1, <2>2, <2>3, <3>1
    <3>2. CASE q # r
      BY <2>1, <2>3, <3>2
    <3> QED  BY <3>1, <3>2
  <2>5. TypeOK'
    BY <1>8, <2>1, <2>2, <2>3 DEF Finish, end, goto
  <2>6. (Progress /\ ExclusiveWriter /\ Migrated /\ setUp \subseteq configured)'
    BY <1>8, <2>1 DEF Finish, end, goto
  <2> QED  BY <2>4, <2>5, <2>6
<1>9. ASSUME NEW s \in Setups, Kill(s) PROVE IInv'
  BY <1>9 DEF Kill, end, goto, files
<1>10. ASSUME NEW r \in Roots, Hook(r) PROVE IInv'
  BY <1>10 DEF Hook, files
<1>11. CASE UNCHANGED vars
  BY <1>11 DEF vars, files
<1> QED
  BY <1>1, <1>2, <1>3, <1>4, <1>5, <1>6, <1>7, <1>8, <1>9, <1>10, <1>11 DEF Next, SetupStep

THEOREM Invariance == Spec => []IInv
  BY InitIInv, NextIInv, PTL DEF Spec

-------------------------------------------------------------------------------
(* The properties *)

\* TypeOK of Activation for every value of the constants.
THEOREM TypeCorrect == Spec => []TypeOK
<1>1. IInv => TypeOK
  BY DEF IInv
<1> QED  BY <1>1, Invariance, PTL

\* The migration to markers (activation.py, save_workspace_activations) leaves no
\* legacy project without one that is enabled there.
THEOREM MigrationIsSafe == Spec => []LegacyStaysEnabled
<1>1. IInv => LegacyStaysEnabled
  <2> SUFFICES ASSUME IInv, NEW r \in legacy PROVE enabled(r) # None
    BY DEF LegacyStaysEnabled
  <2>1. r \in Roots /\ r \in registered /\ r # None
    BY NoneAssumption DEF IInv, TypeOK
  <2>2. CASE complete
    <3>1. nearest(r, markers) = r
      BY <2>1, <2>2, NearestSelf DEF IInv, Migrated
    <3> QED  BY <2>1, <3>1 DEF enabled
  <2>3. CASE ~complete
    <3>1. nearest(r, registered) = r
      BY <2>1, NearestSelf
    <3> QED  BY <2>1, <2>3, <3>1 DEF enabled
  <2> QED  BY <2>2, <2>3
<1> QED  BY <1>1, Invariance, PTL

\* A setup that ended is in force: the project is configured and a Hook in it finds
\* its own marker first (app.py _setup, activation.py enabled_workspace_root).
THEOREM SetupIsEffective == Spec => []SetUpIsEnabled
<1>1. IInv => SetUpIsEnabled
  <2> SUFFICES ASSUME IInv, NEW r \in setUp PROVE r \in configured /\ enabled(r) = r
    BY DEF SetUpIsEnabled
  <2>1. r \in Roots /\ r \in markers /\ r \in configured /\ r # None
    BY NoneAssumption DEF IInv, TypeOK
  <2>2. nearest(r, markers) = r
    BY <2>1, NearestSelf
  <2> QED  BY <2>1, <2>2 DEF enabled
<1> QED  BY <1>1, Invariance, PTL

\* No setup loses the configuration of another (app.py save_configuration).
THEOREM NoLostConfiguration == Spec => ConfigurationsKept
<1>1. IInv /\ [Next]_vars => configured \subseteq configured'
  <2> SUFFICES ASSUME IInv, [Next]_vars PROVE configured \subseteq configured'
    OBVIOUS
  <2>1. ASSUME NEW s \in Setups, WriteConfiguration(s) PROVE configured \subseteq configured'
    BY <2>1 DEF IInv, ExclusiveWriter, WriteConfiguration
  <2>2. ASSUME NEW s \in Setups, SetupStep(s), ~WriteConfiguration(s) PROVE configured' = configured
    BY <2>2 DEF SetupStep, Begin, Register, ReadConfiguration, ReadRoots, SaveMarker,
                SaveMigrationComplete, Finish, Kill, files
  <2>3. ASSUME NEW r \in Roots, Hook(r) PROVE configured' = configured
    BY <2>3 DEF Hook, files
  <2>4. CASE UNCHANGED vars
    BY <2>4 DEF vars, files
  <2> QED  BY <2>1, <2>2, <2>3, <2>4 DEF Next
<1> QED  BY <1>1, Invariance, PTL DEF Spec, ConfigurationsKept

\* The boundary of a project never moves past what was recorded after its setup
\* (app.py _finish_setup).
THEOREM BoundaryIsFixed == Spec => []RecordedFromSetup
<1>1. IInv => RecordedFromSetup
  BY DEF IInv
<1> QED  BY <1>1, Invariance, PTL
===============================================================================
