------------------------------- MODULE LoginRisk -------------------------------
(***************************************************************************)
(* RiskAssessmentService: the score of the next login of one user, from    *)
(* the attempts made so far.  A tick is a minute; what the code compares   *)
(* with 60 s, with 400 s (100 km at 900 km/h) and with 15 min is the age   *)
(* of an attempt.                                                          *)
(***************************************************************************)
EXTENDS Integers, Sequences, FiniteSetsExt

CONSTANTS
    Places,          \* locations a request can carry
    Devices,         \* device fingerprints
    NoPlace,         \* a request without a location
    MaxAttempts,     \* bound on the attempts of a behaviour
    Pauses           \* minutes that may pass at once

ASSUME RiskAssumption ==
    /\ MaxAttempts \in Nat /\ Pauses \subseteq Nat \ {0} /\ NoPlace \notin Places

VARIABLE attempts    \* previousAttempts, oldest first

riskVars == <<attempts>>

Old == 15            \* ages from 15 minutes on are not told apart

Attempts == [place : Places \cup {NoPlace}, device : Devices, success : BOOLEAN, age : 0..Old]

RiskTypeOK ==
    /\ Len(attempts) <= MaxAttempts
    /\ \A i \in DOMAIN attempts : attempts[i] \in Attempts

RiskInit == attempts = <<>>

-----------------------------------------------------------------------------
(* The assessment                                                          *)

Where(test(_)) == {i \in DOMAIN attempts : test(attempts[i])}
Successes == LET test(a) == a.success IN Where(test)

\* Slip: a success clears the failures before it.
RecentFailures_SinceSuccess ==
    Cardinality({i \in DOMAIN attempts :
        ~ attempts[i].success /\ attempts[i].age < 15 /\ \A j \in Successes : j < i})

\* assessFailedAttempts
RecentFailures == LET test(a) == ~ a.success /\ a.age < 15 IN Cardinality(Where(test))

\* isUnusualLocation
NewPlace(place) ==
    place # NoPlace /\ \A i \in Successes : attempts[i].place # place

\* The last success was elsewhere, too short a time ago.  One without a place
\* is no evidence of travel, whatever came before it.
WasElsewhere(place) ==
    Successes # {} /\ LET l == attempts[Max(Successes)] IN
        l.place \notin {NoPlace, place} /\ l.age < 7

\* detectImpossibleTravel
ImpossibleTravel(place) == place # NoPlace /\ WasElsewhere(place)

\* isKnownDevice
NewDevice(device) == \A i \in Successes : attempts[i].device # device

\* checkVelocity with its window of a minute
Velocity == LET test(a) == a.age < 1 IN Cardinality(Where(test))

\* checkIPReputation, times the twenty points it is worth.
Reputations == {0, 2, 16}

Worth(condition, points) == IF condition THEN points ELSE 0

\* calculateCompositeRiskScore: every term is whole, so nothing is rounded.
RiskScore(place, device, reputation) ==
    Min({100,
         Min({30, 10 * RecentFailures}) + Worth(NewPlace(place), 10)
         + Worth(ImpossibleTravel(place), 40) + Worth(NewDevice(device), 15)
         + reputation + Min({15, 3 * Velocity})})

-----------------------------------------------------------------------------

LoginAttempt(place, device, success) ==
    /\ Len(attempts) < MaxAttempts
    /\ attempts' = Append(attempts,
         [place |-> place, device |-> device, success |-> success, age |-> 0])

Pause(minutes) ==
    /\ attempts # <<>>
    /\ attempts' = [i \in DOMAIN attempts |->
         [attempts[i] EXCEPT !.age = Min({Old, @ + minutes})]]

RiskNext ==
    \/ \E p \in Places \cup {NoPlace}, d \in Devices, ok \in BOOLEAN : LoginAttempt(p, d, ok)
    \/ \E m \in Pauses : Pause(m)

RiskSpec == RiskInit /\ [][RiskNext]_riskVars

-----------------------------------------------------------------------------
(* Properties                                                              *)

Logins == (Places \cup {NoPlace}) \X Devices \X Reputations
ScoreOf(r) == RiskScore(r[1], r[2], r[3])

Newest == attempts'[Len(attempts')]
Attempted == Len(attempts') > Len(attempts)
Waited == attempts # <<>> /\ ~ Attempted

\* Waiting never makes a login look worse: no window, limit or cap turns round.
WaitingCalms == Waited => \A r \in Logins : ScoreOf(r)' <= ScoreOf(r)

\* A failed attempt never makes any later login look better.
FailureNeverHelps ==
    Attempted /\ ~ Newest.success => \A r \in Logins : ScoreOf(r)' >= ScoreOf(r)

\* A success makes only logins of its own place or device look better, except
\* that one without a place hides the travel of everybody.
SuccessForgivesItsOwn ==
    Attempted /\ Newest.success
        => \A r \in Logins : ScoreOf(r)' < ScoreOf(r)
             => \/ r[1] = Newest.place \/ r[2] = Newest.device
                \/ ImpossibleTravel(r[1]) /\ Newest.place = NoPlace

\* The score moves with the history in the direction each attempt justifies.
ScoresMoveRight ==
    [][WaitingCalms /\ FailureNeverHelps /\ SuccessForgivesItsOwn]_riskVars
=============================================================================
