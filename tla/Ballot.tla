---- MODULE Ballot ----
(***************************************************************************)
(* The ballot (contracts/ballot): registered voters vote for one of the    *)
(* choices in a voting window, commit to a choice and reveal it later, or  *)
(* rank the choices; a closed ballot is certified once.                    *)
(*                                                                         *)
(* The file holds most functions several times over.  Modelled is the      *)
(* weighted version of each, and the complete one of the two               *)
(* deregister_voter; unregister_voter, left without a body of its own by a *)
(* merge, and the ballots by id, of which only tests remain, are left out. *)
(* A commitment stands for what its hash can be opened to: reveal_vote     *)
(* hashes voter ++ choice ++ salt, reveal_vote_blinded secret ++ choice ++ *)
(* proof, and where the pieces meet is up to whoever made it, so one hash  *)
(* may open both ways and to different choices.  tally_ranked returns      *)
(* nothing.  cast and commitPhases are history variables.                  *)
(***************************************************************************)
EXTENDS HostClock, Sequences, FiniteSetsExt

CONSTANTS
    Voters,        \* addresses the admin registers
    VoterWeights,  \* candidate weights
    Ballots,       \* candidate [start, end, choices, quorum]
    Rankings,      \* candidate preference lists
    Hidden,        \* candidate commitments
    MinBuffer,     \* MIN_DEADLINE_BUFFER
    MinDuration,   \* MIN_VOTING_DURATION
    MaxChoices,    \* bound: choices of a ballot
    MaxPhases,     \* bound: commit phases started
    Unset          \* an absent key

ChoiceIndices == 0..MaxChoices

\* A hash: the choice reveal_vote opens it to and the one reveal_vote_blinded does,
\* Unset where there is no such opening.
Commitments == [open : ChoiceIndices \cup {Unset}, blind : ChoiceIndices \cup {Unset}]

ASSUME BallotAssumption ==
    /\ VoterWeights \subseteq Nat /\ MinBuffer \in Nat /\ MinDuration \in Nat
    /\ MaxChoices \in Nat /\ MaxPhases \in Nat /\ Unset \notin Nat /\ Unset \notin Commitments
    /\ \A b \in Ballots : b \in [start : Nat, end : Nat, choices : 0..MaxChoices, quorum : Nat]
    /\ Rankings \subseteq Seq(Nat) /\ Hidden \subseteq Commitments

VARIABLES
    ballot,         \* VotingStart, VotingEnd, Choices, Quorum keys
    announced,      \* is the Admin key present?
    votingActive,   \* VotingActive key
    phase,          \* CommitPhase and RevealPhase keys: "none", "commit", "reveal"
    registered,     \* RegisteredVoter keys
    weightOf,       \* VoterWeight keys
    choiceVotes,    \* ChoiceVotes keys, of indices past the last choice too
    yesNo,          \* YesVotes and NoVotes keys
    totalVotes,     \* TotalVotes key
    hasVoted,       \* HasVoted keys
    commitments,    \* Commitment keys
    hashes,         \* CommitmentHash keys that can be opened: per voter, commit phase and choice
    ranked,         \* RankedVote keys
    tieBreaker,     \* TieBreaker key
    tieResolution,  \* TieResolution key
    certified,      \* CertifiedWinner key
    cast,           \* how often each voter was counted, by entry point
    commitPhases    \* commit phases started

ballotOnlyVars ==
    <<ballot, announced, votingActive, phase, registered, weightOf, choiceVotes, yesNo, totalVotes,
      hasVoted, commitments, hashes, ranked, tieBreaker, tieResolution, certified, cast, commitPhases>>
ballotVars == <<now, ballotOnlyVars>>

Routes == {"vote", "reveal", "blinded", "ranked"}

BallotInit ==
    /\ now = 0
    /\ ballot \in Ballots /\ announced = FALSE
    /\ votingActive = FALSE /\ phase = "none"
    /\ registered = {} /\ weightOf = [v \in Voters |-> 1]
    /\ choiceVotes = [i \in ChoiceIndices |-> 0] /\ yesNo = [yes |-> 0, no |-> 0] /\ totalVotes = 0
    /\ hasVoted = {} /\ commitments = [v \in Voters |-> Unset] /\ ranked = {}
    /\ hashes = [v \in Voters |-> {}]
    /\ tieBreaker = "RunoffRequired" /\ tieResolution = Unset /\ certified = Unset
    /\ cast = [v \in Voters |-> [r \in Routes |-> 0]] /\ commitPhases = 0

\* Admin.
AnnounceBallot ==
    /\ ~announced
    /\ ballot.choices > 0
    /\ ballot.start >= now + MinBuffer
    /\ ballot.end >= ballot.start + MinDuration /\ ballot.start < ballot.end
    /\ announced' = TRUE
    /\ votingActive' = TRUE
    /\ UNCHANGED <<now, ballot, phase, registered, weightOf, choiceVotes, yesNo, totalVotes, hasVoted,
                   commitments, hashes, ranked, tieBreaker, tieResolution, certified, cast, commitPhases>>

\* Admin, at any time and again for the same voter.
RegisterVoter(v, w) ==
    /\ announced
    /\ registered' = registered \cup {v}
    /\ weightOf' = [weightOf EXCEPT ![v] = w]
    /\ UNCHANGED <<now, ballot, announced, votingActive, phase, choiceVotes, yesNo, totalVotes, hasVoted,
                   commitments, hashes, ranked, tieBreaker, tieResolution, certified, cast, commitPhases>>

\* Admin.
DeregisterVoter(v) ==
    /\ announced
    /\ totalVotes <= 0
    /\ v \in registered
    /\ registered' = registered \ {v}
    /\ UNCHANGED <<now, ballot, announced, votingActive, phase, weightOf, choiceVotes, yesNo, totalVotes,
                   hasVoted, commitments, hashes, ranked, tieBreaker, tieResolution, certified, cast,
                   commitPhases>>

\* record_vote
RecordChoice(i, w) ==
    /\ choiceVotes' = [choiceVotes EXCEPT ![i] = @ + w]
    /\ yesNo' = [yes |-> IF i = 1 THEN yesNo.yes + w ELSE yesNo.yes,
                 no |-> IF i = 0 THEN yesNo.no + w ELSE yesNo.no]
    /\ totalVotes' = totalVotes + w

Credit(v, r) ==
    /\ cast' = [cast EXCEPT ![v][r] = @ + 1]
    /\ UNCHANGED <<now, ballot, announced, votingActive, phase, registered, weightOf, tieBreaker,
                   tieResolution, certified, commitPhases>>

\* A voter.
CastVote(v, i) ==
    /\ announced
    /\ votingActive
    /\ ballot.start <= now /\ now <= ballot.end
    /\ v \in registered
    /\ v \notin hasVoted
    /\ i < ballot.choices
    /\ RecordChoice(i, weightOf[v])
    /\ hasVoted' = hasVoted \cup {v}
    /\ Credit(v, "vote")
    /\ UNCHANGED <<commitments, hashes, ranked>>

\* Admin, or anyone once the window has closed: tally and tally_all.
CloseTally ==
    /\ announced
    /\ votingActive' = FALSE
    /\ UNCHANGED <<now, ballot, announced, phase, registered, weightOf, choiceVotes, yesNo, totalVotes,
                   hasVoted, commitments, hashes, ranked, tieBreaker, tieResolution, certified, cast,
                   commitPhases>>

\* Admin.  A closed ballot becomes active again.
StartCommitPhase ==
    /\ announced
    /\ phase' = "commit"
    /\ votingActive' = TRUE
    /\ commitPhases' = commitPhases + 1
    /\ UNCHANGED <<now, ballot, announced, registered, weightOf, choiceVotes, yesNo, totalVotes, hasVoted,
                   commitments, hashes, ranked, tieBreaker, tieResolution, certified, cast>>

\* Admin.
StartRevealPhase ==
    /\ announced
    /\ phase' = "reveal"
    /\ UNCHANGED <<now, ballot, announced, votingActive, registered, weightOf, choiceVotes, yesNo,
                   totalVotes, hasVoted, commitments, hashes, ranked, tieBreaker, tieResolution,
                   certified, cast, commitPhases>>

\* A voter; what c hides is not looked at before the reveal, and not then either.
CommitVote(v, c) ==
    /\ v \in registered
    /\ phase = "commit"
    /\ commitments[v] = Unset
    /\ commitments' = [commitments EXCEPT ![v] = c]
    /\ UNCHANGED <<now, ballot, announced, votingActive, phase, registered, weightOf, choiceVotes, yesNo,
                   totalVotes, hasVoted, hashes, ranked, tieBreaker, tieResolution, certified, cast,
                   commitPhases>>

\* A voter.  The hash is filed under the voter's key too.
CommitVoteBlinded(v, c) ==
    /\ v \in registered
    /\ phase = "commit"
    /\ commitments[v] = Unset
    /\ commitments' = [commitments EXCEPT ![v] = c]
    /\ hashes' = [hashes EXCEPT ![v] = IF c.blind = Unset THEN @ ELSE @ \cup {<<commitPhases, c.blind>>}]
    /\ UNCHANGED <<now, ballot, announced, votingActive, phase, registered, weightOf, choiceVotes, yesNo,
                   totalVotes, hasVoted, ranked, tieBreaker, tieResolution, certified, cast, commitPhases>>

\* Mutant: the commitment is still there after its reveal.
RevealKept(v) ==
    /\ v \in registered /\ phase = "reveal"
    /\ commitments[v] # Unset /\ commitments[v].open # Unset
    /\ RecordChoice(commitments[v].open, weightOf[v])
    /\ Credit(v, "reveal")
    /\ UNCHANGED <<hasVoted, hashes, ranked, commitments>>

\* A voter, in or out of the voting window, for either kind of commitment.
RevealVote(v) ==
    /\ v \in registered
    /\ phase = "reveal"
    /\ commitments[v] # Unset /\ commitments[v].open # Unset
    /\ commitments' = [commitments EXCEPT ![v] = Unset]
    /\ RecordChoice(commitments[v].open, weightOf[v])
    /\ Credit(v, "reveal")
    /\ UNCHANGED <<hasVoted, hashes, ranked>>

\* Any relayer, for a hash v made; it counts one, whatever v's weight.
RevealVoteBlinded(v, h) ==
    /\ phase = "reveal"
    /\ h \in hashes[v]
    /\ h[2] < ballot.choices
    /\ hashes' = [hashes EXCEPT ![v] = @ \ {h}]
    /\ RecordChoice(h[2], 1)
    /\ Credit(v, "blinded")
    /\ UNCHANGED <<hasVoted, commitments, ranked>>

\* A voter.  Ranked ballots enter the turnout and no choice's count.
VoteRanked(v, list) ==
    /\ v \in registered
    /\ votingActive
    /\ list # <<>>
    /\ \A i \in DOMAIN list : list[i] < ballot.choices
    /\ \A i, j \in DOMAIN list : i # j => list[i] # list[j]
    /\ v \notin ranked
    /\ ranked' = ranked \cup {v}
    /\ totalVotes' = totalVotes + weightOf[v]
    /\ Credit(v, "ranked")
    /\ UNCHANGED <<choiceVotes, yesNo, hasVoted, commitments, hashes>>

\* Admin.
SetTieBreaker(t) ==
    /\ announced
    /\ tieBreaker' = t
    /\ UNCHANGED <<now, ballot, announced, votingActive, phase, registered, weightOf, choiceVotes, yesNo,
                   totalVotes, hasVoted, commitments, hashes, ranked, tieResolution, certified, cast,
                   commitPhases>>

\* ballot_tied_choices: the leading choices, if anything was counted.
TiedChoices ==
    LET most == Max({choiceVotes[i] : i \in 0..(ballot.choices - 1)}) IN
    {i \in 0..(ballot.choices - 1) : choiceVotes[i] = most /\ most > 0}

WindowClosed == announced /\ now > ballot.end

\* Admin.
ResolveTie(i) ==
    /\ WindowClosed
    /\ i \in TiedChoices
    /\ tieResolution' = i
    /\ UNCHANGED <<now, ballot, announced, votingActive, phase, registered, weightOf, choiceVotes, yesNo,
                   totalVotes, hasVoted, commitments, hashes, ranked, tieBreaker, certified, cast,
                   commitPhases>>

\* Mutant: the admin's choice stands although later reveals broke the tie.
WinnerAsResolved ==
    IF tieBreaker = "AdminDecidingVote" /\ tieResolution # Unset THEN tieResolution
    ELSE IF Cardinality(TiedChoices) = 1 THEN Max(TiedChoices) ELSE Unset

\* Unset when a tie is not resolved, or nothing was counted.
Winner ==
    IF Cardinality(TiedChoices) = 1 THEN Max(TiedChoices)
    ELSE IF tieBreaker = "AdminDecidingVote" /\ tieResolution \in TiedChoices THEN tieResolution
    ELSE Unset

\* Anyone.
CertifyResults ==
    /\ certified = Unset
    /\ WindowClosed
    /\ totalVotes >= ballot.quorum
    /\ Winner # Unset
    /\ certified' = Winner
    /\ UNCHANGED <<now, ballot, announced, votingActive, phase, registered, weightOf, choiceVotes, yesNo,
                   totalVotes, hasVoted, commitments, hashes, ranked, tieBreaker, tieResolution, cast,
                   commitPhases>>

BallotNext ==
    \/ AnnounceBallot
    \/ \E v \in Voters : DeregisterVoter(v) \/ \E w \in VoterWeights : RegisterVoter(v, w)
    \/ \E v \in Voters, i \in ChoiceIndices : CastVote(v, i)
    \/ \E v \in Voters, c \in Hidden : CommitVote(v, c) \/ CommitVoteBlinded(v, c)
    \/ \E v \in Voters : RevealVote(v) \/ \E h \in hashes[v] : RevealVoteBlinded(v, h)
    \/ \E v \in Voters, list \in Rankings : VoteRanked(v, list)
    \/ CloseTally \/ StartRevealPhase \/ CertifyResults
    \/ commitPhases < MaxPhases /\ StartCommitPhase
    \/ \E t \in {"RunoffRequired", "AdminDecidingVote"} : SetTieBreaker(t)
    \/ \E i \in ChoiceIndices : ResolveTie(i)
    \/ LedgerCloses /\ UNCHANGED ballotOnlyVars

BallotSpec == BallotInit /\ [][BallotNext]_ballotVars

----
(* Properties.                                                             *)

\* vote and vote_ranked count a voter once; reveal_vote once for every commit
\* phase, and reveal_vote_blinded once for every commitment, of which there is one
\* more than were revealed at most: neither re-registration, a relayer that reveals
\* for the voter, nor going back and forth between the phases counts a ballot again.
\* The routes add up, though: "there is no re-vote mechanism"
\* (error-reference.md:655) holds for each of them and not for the voter.
RoutesCountOnce ==
    \A v \in Voters : /\ cast[v]["vote"] <= 1 /\ cast[v]["ranked"] <= 1
                      /\ cast[v]["reveal"] <= commitPhases
                      /\ cast[v]["blinded"] <= commitPhases
                      /\ cast[v]["blinded"] <= cast[v]["reveal"] + 1

\* A certified winner led the closed count when it was certified, with the quorum
\* reached, and stays what it is: reveals that arrive after the admin resolved a
\* tie cannot have a choice certified that no longer leads.
CertifiedLeads ==
    [][certified' # certified =>
         /\ certified = Unset /\ now > ballot.end /\ totalVotes >= ballot.quorum
         /\ choiceVotes[certified'] > 0
         /\ \A i \in 0..(ballot.choices - 1) : choiceVotes[i] <= choiceVotes[certified']
         /\ (\E i \in 0..(ballot.choices - 1) \ {certified'} : choiceVotes[i] = choiceVotes[certified'])
               => tieBreaker = "AdminDecidingVote"]_ballotVars
====
