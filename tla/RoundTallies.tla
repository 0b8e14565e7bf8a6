---------------------------- MODULE RoundTallies ----------------------------
(***************************************************************************)
(* The tallies that ride on the parser's second pass (core/parser.py,      *)
(* st_extract/freespin_progression.py, play_types/bcm_cycle.py): the       *)
(* return bands of rounds and sessions and the streaks of rounds, the      *)
(* chains of rounds annotated "Freespin N", the collect mechanic, and the  *)
(* free spins by their index on each trigger path.                         *)
(*                                                                         *)
(* A round has two more fields: index (the N of its annotation) and ratio  *)
(* (ExtraRatio).  A return band is a number: 0 for no return (eq0), then   *)
(* one more for each cutoff the return reaches.                            *)
(***************************************************************************)
EXTENDS TriggerPath

CONSTANT Cutoffs  (* the returns, in bets, at which a band begins *)

VARIABLES bands, bonus, collect, free

roundVars == <<pathVars, bands, bonus, collect, free>>
-----------------------------------------------------------------------------
Count(f, x) == Add(f, x, 1)

(* A tally of rounds (or sessions) with their bets and wins.               *)
NoTally == [rounds |-> 0, bet |-> 0, win |-> 0]
Row(f, x) == IF x \in DOMAIN f THEN f[x] ELSE NoTally
PlusRow(a, b) == [field \in DOMAIN a |-> a[field] + b[field]]
Tallied(f, x, bet, win) ==
    LET row == PlusRow(Row(f, x), [rounds |-> 1, bet |-> bet, win |-> win])
    IN  [y \in DOMAIN f \cup {x} |-> IF y = x THEN row ELSE f[y]]
Pooled(f, g) == [x \in DOMAIN f \cup DOMAIN g |-> PlusRow(Row(f, x), Row(g, x))]

(* return_bucket.                                                          *)
Band(win, bet) == IF win <= 0 \/ bet <= 0 THEN 0 ELSE 1 + Cardinality({c \in Cutoffs : c * bet <= win})
-----------------------------------------------------------------------------
(* Return bands.  A round's return is of its own bet, nothing for a folded *)
(* one; a session's, of the bet of the spin that opened it.                *)
NoBands == [rounds |-> << >>, paid |-> << >>, sessions |-> << >>, settled |-> << >>,
            sessionsWon |-> 0, sessionsProfit |-> 0, streak |-> 0, runs |-> << >>]

RoundBet(r) == IF Folded(r, CurrentSpin) THEN 0 ELSE BetAmount(r)

(* The session that a paid round or the end of the robot closes.           *)
Settlement(b) ==
    LET won == sess.win + sess.helper
    IN  IF ~sess.open THEN b
        ELSE [b EXCEPT !.sessions = Tallied(@, Band(won, sess.bet), sess.bet, won),
                       !.sessionsWon = @ + IF won > 0 THEN 1 ELSE 0,
                       !.sessionsProfit = @ + IF won > sess.bet THEN 1 ELSE 0]

(* A streak of winning (losing) rounds is counted, by its length, when it  *)
(* ends.                                                                   *)
EndStreak(b) == IF b.streak = 0 THEN b ELSE [b EXCEPT !.runs = Count(@, b.streak), !.streak = 0]
Streaked(b, won) ==
    LET turned == IF won # (b.streak > 0) THEN EndStreak(b) ELSE b
    IN  [turned EXCEPT !.streak = IF won THEN @ + 1 ELSE @ - 1]

Banded(r, paid, win) ==
    LET bet == RoundBet(r)
        cell == <<r.st, Band(win, bet)>>
        b == Streaked(IF paid THEN Settlement(bands) ELSE bands, win > 0)
    IN  [b EXCEPT !.rounds = Tallied(@, cell, bet, win),
                  !.paid = IF paid /\ bet > 0 THEN Tallied(@, cell, bet, win) ELSE @]

(* Each trigger session is also a session of the SpinType of its last      *)
(* bonus round, the one that settles it.                                   *)
SettledBands(f, rs, sessions) ==
    LET cell(s) == <<rs[Max(s.bonus)].st, Band(s.dim, rs[s.at].cost)>>
    IN  Pooled(f, [x \in {cell(s) : s \in sessions} |->
            LET mine == {s \in sessions : cell(s) = x}
            IN  [rounds |-> Cardinality(mine), bet |-> SumOver(mine, LAMBDA s : rs[s.at].cost),
                 win |-> SumOver(mine, LAMBDA s : s.dim)]])
-----------------------------------------------------------------------------
(* Chains of annotated rounds.  A chain that opens goes to the feature its *)
(* trigger shows: the last paid round before it pays (NormalCollectionSpin)*)
(* or not (NewFreespin).                                                   *)
NoBonus == [open |-> FALSE, feature |-> None, length |-> 0, pays |-> FALSE,
            lengths |-> << >>, rounds |-> << >>]

(* Mutant of FlushedChain: the end of a robot does not end its chain.      *)
FlushedChainNever(b) == b

FlushedChain(b) ==
    IF ~b.open THEN b
    ELSE [b EXCEPT !.lengths = Count(@, <<b.feature, b.length>>), !.open = FALSE, !.length = 0, !.feature = None]

Annotated(r, paid) ==
    LET feature == IF bonus.open THEN bonus.feature
                   ELSE IF bonus.pays THEN "NormalCollectionSpin" ELSE "NewFreespin"
        b == IF r.index = None THEN FlushedChain(bonus)
             ELSE [bonus EXCEPT !.open = TRUE, !.feature = feature, !.rounds = Count(@, feature),
                                !.length = IF r.index > @ THEN r.index ELSE @]
    IN  [b EXCEPT !.pays = IF paid THEN r.pays # << >> ELSE @]
-----------------------------------------------------------------------------
(* The collect mechanic: the robot's own counters and the chunk's.         *)
NewCollect == [max |-> 0, seen |-> FALSE, paid |-> 0, last |-> 0, final |-> 0]
NoCollect == NewCollect @@
    [total |-> 0, robots |-> 0, pending |-> 0, waiting |-> 0, peaks |-> << >>, finals |-> << >>]

Collected(r, paid) ==
    LET cc == Num(r.cc)
        spins == collect.paid + IF paid THEN 1 ELSE 0
    IN  [collect EXCEPT !.seen = @ \/ r.cc # None, !.paid = spins,
                        !.last = IF cc > collect.max THEN spins ELSE @,
                        !.max = IF cc > @ THEN cc ELSE @,
                        !.final = IF paid /\ cc > 0 THEN cc ELSE @]

(* compute_robot_cycle_peaks: the counts from which a paid round fell.     *)
CyclePeaks(rs) ==
    LET cc == SelectSeq([i \in DOMAIN rs |-> IF Paid(rs[i]) THEN Num(rs[i].cc) ELSE 0], LAMBDA c : c > 0)
        falls == {i \in 1..(Len(cc) - 1) : cc[i + 1] < cc[i] /\ cc[i] > 10}
    IN  [p \in {cc[i] : i \in falls} |-> Cardinality({i \in falls : cc[i] = p})]

(* Mutant of RobotCollected: the counters of a robot go on in the next.    *)
RobotCollectedOn ==
    LET pending == IF collect.seen THEN collect.paid - collect.last ELSE 0
    IN  [collect EXCEPT !.total = @ + collect.max, !.robots = @ + IF collect.seen THEN 1 ELSE 0,
                        !.pending = @ + pending, !.waiting = @ + IF pending > 0 THEN 1 ELSE 0,
                        !.peaks = AddAll(@, CyclePeaks(chunk[robot])),
                        !.finals = IF collect.final > 0 THEN Count(@, collect.final) ELSE @]

(* The end of a robot: the paid spins since its count last rose wait for a *)
(* collect that is not in the sample.                                      *)
RobotCollected ==
    LET pending == IF collect.seen THEN collect.paid - collect.last ELSE 0
    IN  NewCollect @@
        [collect EXCEPT !.total = @ + collect.max, !.robots = @ + IF collect.seen THEN 1 ELSE 0,
                        !.pending = @ + pending, !.waiting = @ + IF pending > 0 THEN 1 ELSE 0,
                        !.peaks = AddAll(@, CyclePeaks(chunk[robot])),
                        !.finals = IF collect.final > 0 THEN Count(@, collect.final) ELSE @]
-----------------------------------------------------------------------------
(* The free spins by index, ratio and session, for the SpinTypes whose     *)
(* role is freespin and that declare trigger paths.                        *)
NoFree == [arc |-> << >>, wins |-> << >>, ratios |-> << >>, sessionWin |-> << >>, sessions |-> {}]

FreeTypes == {st \in DOMAIN manifest.paths \cap DOMAIN manifest.roles : manifest.roles[st] = "freespin"}

FreeSpun(r, paid) ==
    LET key == <<r.st, LabelNow(r, paid)>>
        at == <<key, r.index>>
        win == IF RoundWin(r) > 0 THEN RoundWin(r) ELSE 0
        block == BlockNow(paid)
        owner(l) == <<r.st, l, robot, block>>
    IN  IF r.st \notin FreeTypes THEN free
        ELSE [arc |-> IF r.index = None THEN free.arc ELSE Tallied(free.arc, at, 0, win),
              wins |-> IF r.index = None \/ win = 0 THEN free.wins ELSE Count(free.wins, at),
              ratios |-> IF r.index = None \/ r.ratio = None THEN free.ratios
                         ELSE Count(free.ratios, <<at, r.ratio>>),
              sessionWin |-> IF block = None THEN free.sessionWin
                             ELSE Add(free.sessionWin, owner(key[2]), win),
              sessions |-> free.sessions \cup
                  IF block = None THEN {} ELSE {owner(l) : l \in {key[2]} \cup Members(key[2])}]

(* finalize_chunk.  A label is listed when a round of it has an index; a   *)
(* session's win is looked up under the label, so a block that several     *)
(* paths opened counts for each of them as one without a win.              *)
Listed == {at[1] : at \in DOMAIN free.arc}
SessionTier(s) == Band(IF s \in DOMAIN free.sessionWin THEN free.sessionWin[s] ELSE 0, Bet)
SessionTiers ==
    LET mine == {s \in free.sessions : <<s[1], s[2]>> \in Listed}
        cell(s) == <<<<s[1], s[2]>>, SessionTier(s)>>
    IN  [x \in {cell(s) : s \in mine} |-> Cardinality({s \in mine : cell(s) = x})]

(* The ladder's row of an index: all its rounds, the sum of the ratios of  *)
(* those that have one.                                                    *)
Ladder ==
    [at \in {x[1] : x \in DOMAIN free.ratios} |->
        [rounds |-> free.arc[at].rounds,
         sum |-> SumOver({x \in DOMAIN free.ratios : x[1] = at}, LAMBDA x : free.ratios[x] * x[2])]]
-----------------------------------------------------------------------------
NoTallies == bands = NoBands /\ bonus = NoBonus /\ collect = NoCollect /\ free = NoFree

TallyBeginRobot ==
    /\ PathBeginRobot
    /\ bands' = [bands EXCEPT !.settled = SettledBands(@, chunk[robot], pass'.sessions)]
    /\ bonus' = [bonus EXCEPT !.pays = FALSE]
    /\ UNCHANGED <<collect, free>>

TallyRound ==
    /\ PathRound
    /\ LET r == Current
           paid == PaidNow
       IN  /\ bands' = Banded(r, paid, RoundWin(r)) /\ bonus' = Annotated(r, paid)
           /\ collect' = Collected(r, paid) /\ free' = FreeSpun(r, paid)

TallyEndRobot ==
    /\ PathEndRobot
    /\ bands' = EndStreak(Settlement(bands)) /\ bonus' = FlushedChain(bonus)
    /\ collect' = RobotCollected /\ UNCHANGED free

TallyFinish == PathFinish /\ UNCHANGED <<bands, bonus, collect, free>>

TallyStep == TallyBeginRobot \/ TallyRound \/ TallyEndRobot \/ TallyFinish
-----------------------------------------------------------------------------
(* PROPERTIES                                                              *)

(* The runs of a robot's rounds that have a property and the next have not.*)
RunsOf(rs, has(_)) ==
    {S \in {i..j : i, j \in DOMAIN rs} : /\ S # {} /\ \A i \in S : has(rs[i])
                                         /\ Min(S) = 1 \/ ~has(rs[Min(S) - 1])
                                         /\ Max(S) = Len(rs) \/ ~has(rs[Max(S) + 1])}

(* Each histogram of streaks holds the runs of won and of lost rounds, and *)
(* none across robots.                                                     *)
StreaksAreRuns ==
    LET won(r) == RoundWin(r) > 0
        lost(r) == RoundWin(r) <= 0
        of(n, rs) == IF n > 0 THEN {S \in RunsOf(rs, won) : Cardinality(S) = n}
                              ELSE {S \in RunsOf(rs, lost) : Cardinality(S) = -n}
    IN  \A n \in -total.rounds..total.rounds : n # 0 =>
            (IF n \in DOMAIN bands.runs THEN bands.runs[n] ELSE 0)
                = SumOver(DOMAIN chunk, LAMBDA k : Cardinality(of(n, chunk[k])))

(* A chain is a run of annotated rounds of one robot, of the feature that  *)
(* the last spin before it shows, and every annotated round is in one.     *)
ChainFeature(c, rs, S) ==
    LET before == {i \in WagersOf(CostUnreliable(c[1]), rs) : i < Min(S)}
    IN  IF before # {} /\ rs[Max(before)].pays # << >> THEN "NormalCollectionSpin" ELSE "NewFreespin"
ChainsAreRuns ==
    LET chains(k) == RunsOf(chunk[k], LAMBDA r : r.index # None)
        longest(k, S) == Max({chunk[k][i].index : i \in S})
        all == UNION {{<<k, S>> : S \in chains(k)} : k \in DOMAIN chunk}
        of(x) == <<ChainFeature(chunk, chunk[x[1]], x[2]), longest(x[1], x[2])>>
    IN  /\ bonus.lengths = [c \in {of(x) : x \in all} |-> Cardinality({x \in all : of(x) = c})]
        /\ bonus.rounds = [f \in {of(x)[1] : x \in all} |->
              SumOver({x \in all : of(x)[1] = f}, LAMBDA x : Cardinality(x[2]))]

(* A robot's collects are its highest count, and the spins it leaves       *)
(* waiting are those after the round that first showed that count.         *)
CollectsAsShown ==
    LET counts(rs) == {Num(rs[i].cc) : i \in DOMAIN rs}
        first(rs) == Min({i \in DOMAIN rs : Num(rs[i].cc) = Max(counts(rs))})
        waiting(rs) == IF Max(counts(rs)) = 0 THEN Wagers(rs) ELSE {i \in Wagers(rs) : i > first(rs)}
        shown == {k \in DOMAIN chunk : \E i \in DOMAIN chunk[k] : chunk[k][i].cc # None}
    IN  /\ collect.total = SumOver(DOMAIN chunk, LAMBDA k : Max(counts(chunk[k])))
        /\ collect.robots = Cardinality(shown)
        /\ collect.pending = SumOver(shown, LAMBDA k : Cardinality(waiting(chunk[k])))
        /\ collect.waiting = Cardinality({k \in shown : waiting(chunk[k]) # {}})

(* The accounts close on every finished chunk: credits, sessions, streak   *)
(* histograms, which hold each session and each run of rounds once, cycle  *)
(* labels, chains and collects (parser.py's chunk record).                 *)
AccountsClose ==
    phase = "done" =>
        /\ EveryWinCredited /\ EveryWinInOneSession /\ total.streaks = total.sessions
        /\ PeaksLabelOneChain /\ StreaksAreRuns /\ ChainsAreRuns /\ CollectsAsShown
=============================================================================
