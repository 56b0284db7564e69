------------------------- MODULE MasternodePayments -------------------------
(***************************************************************************)
(* Votes on which masternode each block pays (masternode-payments.cpp):    *)
(* the masternodes ranked for a height vote ten blocks ahead, the votes    *)
(* travel in any order and any number of times, and a node tallies them,   *)
(* checks and fills blocks by them, forgets old ones, and saves them at    *)
(* shutdown.                                                               *)
(*                                                                         *)
(* One node is shown, among voting masternodes that follow the same chain. *)
(* It is synchronised and SPORK_8 is active.  Whom a masternode picks from *)
(* its payment queue is left open, and so is the rank of a masternode: the *)
(* voter and the node each work it out from the masternodes they know.  A  *)
(* vote is taken in one step although the tally is raised after the locks  *)
(* are released.  While the masternodes are fewer than 800 the clean-up    *)
(* reaches a vote that is in range only after many more blocks; with more  *)
(* of them Recent = Limit, and a block that arrives in between may clean   *)
(* the vote up before it is tallied.                                       *)
(***************************************************************************)
EXTENDS Integers, FiniteSets

CONSTANTS Masternodes,
          Payees,
          MNPAYMENTS_SIGNATURES_REQUIRED, MNPAYMENTS_SIGNATURES_TOTAL,
          Ahead,                            \* votes are for the height of the tip + 10
          Future,                           \* and taken up to the tip + 20
          Recent,                           \* and from the tip - 1.25 times the masternodes
          Limit,                            \* nLimit of CleanPaymentList
          MaxTip, MaxRestarts, MaxReorgs,   \* bounds
          None

ASSUME MasternodePaymentsAssumption ==
    /\ MNPAYMENTS_SIGNATURES_REQUIRED \in Nat /\ MNPAYMENTS_SIGNATURES_TOTAL \in Nat \ {0}
    /\ IsFiniteSet(Masternodes)
    /\ Ahead \in Nat \ {0} /\ Future \in Nat /\ Recent \in Nat /\ Limit \in Nat
    /\ Ahead <= Future /\ Recent <= Limit
    /\ MaxTip \in Nat /\ MaxRestarts \in Nat /\ MaxReorgs \in Nat
    /\ None \notin Payees \cup Masternodes \cup [Payees -> Nat]

VARIABLES
    tip,                      \* height of the chain
    nLastBlockHeight,         \* per masternode the height it last voted for
    cast,                     \* votes sent: [vin, nBlockHeight, payee]
    again,                    \* masternodes that have restarted
    mapMasternodePayeeVotes,  \* the node's set of votes
    mapMasternodeBlocks,      \* per height None or the votes of each payee
    file,                     \* mnpayments.dat: its state and the two maps it holds
    restarts, reorgs

Heights == 1..MaxTip
tally == <<mapMasternodePayeeVotes, mapMasternodeBlocks>>
Empty == [votes |-> {}, blocks |-> [h \in Heights |-> None]]
vars == <<tip, nLastBlockHeight, cast, again, tally, file, restarts, reorgs>>

Vote == [vin : Masternodes, nBlockHeight : Heights, payee : Payees]

Init ==
    /\ tip = 0 /\ nLastBlockHeight = [m \in Masternodes |-> 0]
    /\ cast = {} /\ again = {}
    /\ mapMasternodePayeeVotes = {} /\ mapMasternodeBlocks = [h \in Heights |-> None]
    /\ file = [state |-> "missing", maps |-> Empty] /\ restarts = 0 /\ reorgs = 0

-----------------------------------------------------------------------------
(* Voting *)

\* GetMasternodeRank: -1 for a masternode that is not listed, not enabled or too
\* young, or if the block the rank depends on is not known; otherwise a rank
\* among the first MNPAYMENTS_SIGNATURES_TOTAL, or one beyond them.
Ranks == {-1, 1, MNPAYMENTS_SIGNATURES_TOTAL + 1}

MayVote_Always(m) == TRUE
MayVote(m) == tip + Ahead > nLastBlockHeight[m]

\* ProcessBlock at masternode m, which finds its rank to be n and votes for p.
ProcessBlock(m, n, p) ==
    LET vote == [vin |-> m, nBlockHeight |-> tip + Ahead, payee |-> p]
    IN  /\ tip + Ahead \in Heights
        /\ n # -1 /\ n <= MNPAYMENTS_SIGNATURES_TOTAL /\ MayVote(m)
        /\ cast' = cast \cup {vote}
        /\ nLastBlockHeight' = [nLastBlockHeight EXCEPT ![m] = tip + Ahead]
        /\ UNCHANGED <<tip, again, tally, file, restarts, reorgs>>

\* nLastBlockHeight is not saved.
RestartMasternode(m) ==
    /\ restarts < MaxRestarts /\ restarts' = restarts + 1
    /\ nLastBlockHeight' = [nLastBlockHeight EXCEPT ![m] = 0]
    /\ again' = again \cup {m}
    /\ UNCHANGED <<tip, cast, tally, file, reorgs>>

-----------------------------------------------------------------------------
(* The tally *)

\* CMasternodeBlockPayees::AddPayee
AddPayee(payees, p) ==
    [q \in Payees |-> (IF payees = None THEN 0 ELSE payees[q]) + (IF q = p THEN 1 ELSE 0)]

InRange(h) == h >= tip - Recent /\ h <= tip + Future

\* CMasternodePaymentWinner::IsValid for a voter of rank n; -1 passes too.  A
\* voter that is not listed or has an old version is refused like one whose
\* rank is beyond the limit.
IsValid(n) == n <= MNPAYMENTS_SIGNATURES_TOTAL

\* "mnw" up to AddWinningMasternode, at a node that finds the voter's rank to
\* be n; a vote seen before is not counted again.
AddWinningMasternode(vote, n) ==
    /\ vote \notin mapMasternodePayeeVotes /\ InRange(vote.nBlockHeight) /\ IsValid(n)
    /\ mapMasternodePayeeVotes' = mapMasternodePayeeVotes \cup {vote}
    /\ mapMasternodeBlocks' =
          [mapMasternodeBlocks EXCEPT ![vote.nBlockHeight] = AddPayee(@, vote.payee)]
    /\ UNCHANGED <<tip, nLastBlockHeight, cast, again, file, restarts, reorgs>>

\* The maps after CleanPaymentList.
Old(h) == tip - h > Limit
Cleaned_Votes(maps) == [maps EXCEPT !.votes = {v \in @ : ~Old(v.nBlockHeight)}]
Cleaned(maps) ==
    [votes  |-> {v \in maps.votes : ~Old(v.nBlockHeight)},
     blocks |-> [h \in Heights |-> IF \E v \in maps.votes : v.nBlockHeight = h /\ Old(h)
                                   THEN None ELSE maps.blocks[h]]]

Maps == [votes |-> mapMasternodePayeeVotes, blocks |-> mapMasternodeBlocks]

CleanPaymentList ==
    /\ Cleaned(Maps) # Maps
    /\ mapMasternodePayeeVotes' = Cleaned(Maps).votes
    /\ mapMasternodeBlocks' = Cleaned(Maps).blocks
    /\ UNCHANGED <<tip, nLastBlockHeight, cast, again, file, restarts, reorgs>>

-----------------------------------------------------------------------------
(* Blocks *)

Votes(h, p) == IF mapMasternodeBlocks[h] = None THEN 0 ELSE mapMasternodeBlocks[h][p]
Winners(h) == {p \in Payees : Votes(h, p) >= MNPAYMENTS_SIGNATURES_REQUIRED}

\* IsTransactionValid for a block of height h that pays p, or no masternode.
IsTransactionValid(h, p) == h \notin Heights \/ Winners(h) = {} \/ p \in Winners(h)

\* A block arrives, and passes the check of its payee in CheckBlock.
NewBlock(p) ==
    /\ tip < MaxTip /\ IsTransactionValid(tip + 1, p)
    /\ tip' = tip + 1
    /\ UNCHANGED <<nLastBlockHeight, cast, again, tally, file, restarts, reorgs>>

\* The tip is disconnected and another branch will be connected.
Reorg ==
    /\ tip > 0 /\ reorgs < MaxReorgs
    /\ tip' = tip - 1 /\ reorgs' = reorgs + 1
    /\ UNCHANGED <<nLastBlockHeight, cast, again, tally, file, restarts>>

-----------------------------------------------------------------------------
(* Shutdown and start *)

\* DumpMasternodePayments refuses to replace a file it cannot read.
Dumped == IF file.state = "torn" THEN file ELSE [state |-> "saved", maps |-> Maps]
Torn == [state |-> "torn", maps |-> Empty]

\* The maps Read finds; a file that is missing or fails its checksum gives none.
Loaded(f) == Cleaned(f.maps)

\* The node is shut down in order, crashes while the file is written, or
\* crashes otherwise; and starts again.
RestartNode ==
    /\ restarts < MaxRestarts /\ restarts' = restarts + 1
    /\ file' \in {Dumped, Torn, file}
    /\ mapMasternodePayeeVotes' = Loaded(file').votes
    /\ mapMasternodeBlocks' = Loaded(file').blocks
    /\ UNCHANGED <<tip, nLastBlockHeight, cast, again, reorgs>>

-----------------------------------------------------------------------------
Next ==
    \/ \E m \in Masternodes : RestartMasternode(m)
    \/ \E m \in Masternodes, n \in Ranks, p \in Payees : ProcessBlock(m, n, p)
    \/ \E v \in cast, n \in Ranks : AddWinningMasternode(v, n)
    \/ \E p \in Payees \cup {None} : NewBlock(p)
    \/ Reorg \/ CleanPaymentList \/ RestartNode

Spec == Init /\ [][Next]_vars

-----------------------------------------------------------------------------
(* Properties *)

\* The node keeps only votes that were cast, in memory and in the file, and a
\* file that cannot be read gives none.
TypeOK ==
    /\ tip \in 0..MaxTip /\ nLastBlockHeight \in [Masternodes -> 0..MaxTip]
    /\ cast \subseteq Vote /\ again \subseteq Masternodes
    /\ mapMasternodePayeeVotes \subseteq cast /\ file.maps.votes \subseteq cast
    /\ file.state \in {"missing", "torn", "saved"}
    /\ file.state # "saved" => file.maps = Empty
    /\ \A h \in Heights : mapMasternodeBlocks[h] = None \/ mapMasternodeBlocks[h] \in [Payees -> Nat]
    /\ restarts \in 0..MaxRestarts /\ reorgs \in 0..MaxReorgs

\* The votes of a payee are the votes kept for it (masternode-payments.cpp
\* 407-432, 538-565): repeated votes, clean-up, reorganisations and restarts
\* in any order never count a vote twice or keep one that is forgotten.
TallyMatchesVotes ==
    /\ TypeOK
    /\ \A h \in Heights, p \in Payees :
          Votes(h, p) = Cardinality({v \in mapMasternodePayeeVotes :
                                        v.nBlockHeight = h /\ v.payee = p})

\* The masternodes whose votes for height h the node keeps.
Voters(h) == {v.vin : v \in {w \in mapMasternodePayeeVotes : w.nBlockHeight = h}}

\* Two payees of one height reach MNPAYMENTS_SIGNATURES_REQUIRED only if twice
\* as many masternodes voted for it, or one of them was restarted: repeated
\* votes, and votes cast when the chain comes to the height again after a
\* reorganisation, never give one masternode two votes.  Only nLastBlockHeight
\* of each voter (masternode-payments.cpp:618) sees to that, and a restart
\* clears it; the node does not ask CanVote (319-322).  That fewer masternodes
\* vote is what MNPAYMENTS_SIGNATURES_TOTAL is for (masternode-payments.h 27-28),
\* but the node does not see to it: IsValid (586) lets a voter without a rank
\* pass, so it is a condition on the votes it holds.
OneWinner ==
    \A h \in Heights :
        Cardinality(Voters(h)) < 2 * MNPAYMENTS_SIGNATURES_REQUIRED /\ Voters(h) \cap again = {}
        => Cardinality(Winners(h)) <= 1
=============================================================================
