---------------------------- MODULE ReportEngine ----------------------------
(***************************************************************************)
(* The report of a cell (analyzer/report_engine.py): the chunk files are   *)
(* parsed one after another, each chunk's record is added to the engine's  *)
(* totals and shown to the feature plug-ins, and when all are read the     *)
(* report is written: its bet and win, a row per SpinType and per pay id,  *)
(* the plug-ins' sections and the verdict of the integrity gate            *)
(* (rtp_integrity.py).                                                     *)
(*                                                                         *)
(* The engine's gate has no raw data, so three layers; the command line's  *)
(* has the fourth.                                                         *)
(***************************************************************************)
EXTENDS ReportFeatures

CONSTANTS Cells,      (* the chunk files of a cell: sequences of chunks       *)
          Manifests

VARIABLES files, file,  (* the cell's chunk files and the one being read      *)
          acc,          (* what has been merged                               *)
          report

engineVars == <<featureVars, files, file, acc, report>>
-----------------------------------------------------------------------------
NoRecord ==
    [rounds |-> 0, bet |-> 0, win |-> 0, sessions |-> 0, sessionBet |-> 0, sessionWin |-> 0,
     pidWin |-> << >>, hits |-> << >>, byType |-> << >>,
     typeRounds |-> << >>, typePaid |-> << >>, typeWin |-> << >>, next |-> << >>,
     bands |-> << >>, sessionBands |-> << >>, settled |-> << >>, sessionsWon |-> 0, sessionsProfit |-> 0,
     runs |-> << >>, chains |-> << >>, chainRounds |-> << >>, cycleChains |-> << >>,
     collects |-> 0, collectRobots |-> 0, waiting |-> 0, pending |-> 0, peaks |-> << >>, finals |-> << >>,
     ruins |-> NoRuins]

EngineInit ==
    /\ files \in Cells /\ file = 1 /\ manifest \in Manifests
    /\ chunk = files[1] /\ rules = manifest.rules /\ Ready
    /\ paths = NoPaths /\ NoTallies /\ features = NoFeatures /\ acc = NoRecord /\ report = None
-----------------------------------------------------------------------------
(* The engine's totals after a chunk.  The server's own total is not among *)
(* them: the merge reads it under a name that the parser's record does not *)
(* have.                                                                   *)
MergedMoney ==
    [rounds |-> acc.rounds + total.rounds, bet |-> acc.bet + total.bet, win |-> acc.win + total.win]

MergedIds ==
    [pidWin |-> AddAll(acc.pidWin, credit), hits |-> AddAll(acc.hits, ids.hits),
     byType |-> AddAll(acc.byType, ids.byType)]

MergedTypes ==
    [typeRounds |-> AddAll(acc.typeRounds, types.rounds), typePaid |-> AddAll(acc.typePaid, types.paid),
     typeWin |-> AddAll(acc.typeWin, types.win), next |-> AddAll(acc.next, types.next),
     bands |-> Pooled(acc.bands, bands.rounds), settled |-> Pooled(acc.settled, bands.settled),
     cycleChains |-> AddAll(acc.cycleChains, chain.rounds)]

MergedSessions ==
    [sessions |-> acc.sessions + total.sessions, sessionBet |-> acc.sessionBet + total.sessionBet,
     sessionWin |-> acc.sessionWin + total.sessionWin,
     sessionBands |-> Pooled(acc.sessionBands, bands.sessions),
     sessionsWon |-> acc.sessionsWon + bands.sessionsWon,
     sessionsProfit |-> acc.sessionsProfit + bands.sessionsProfit]

MergedChains ==
    [chains |-> AddAll(acc.chains, bonus.lengths), chainRounds |-> AddAll(acc.chainRounds, bonus.rounds),
     runs |-> AddAll(acc.runs, bands.runs)]

MergedCollects ==
    [collects |-> acc.collects + collect.total, collectRobots |-> acc.collectRobots + collect.robots,
     waiting |-> acc.waiting + collect.waiting, pending |-> acc.pending + collect.pending,
     peaks |-> AddAll(acc.peaks, collect.peaks), finals |-> AddAll(acc.finals, collect.finals)]

Merged ==
    MergedMoney @@ MergedIds @@ MergedTypes @@ MergedSessions @@ MergedChains @@ MergedCollects @@
    [ruins |-> Ruined(acc.ruins)]

(* Mutant of Finalized: the extractor keeps the chunk's tallies.           *)
FinalizedNever == paths

(* finalize_chunk leaves the extractor as new for the next chunk.          *)
Finalized == NoPaths

(* Mutant of FreeFinalized: the free spins of a chunk count again in the   *)
(* next.                                                                   *)
FreeFinalizedNever == free

(* And freespin_progression's.                                             *)
FreeFinalized == NoFree

(* A parsed chunk is merged and the next file read; after the last the     *)
(* report is written.                                                      *)
Merge ==
    /\ phase = "done"
    /\ acc' = Merged /\ features' = Reduced /\ paths' = Finalized /\ free' = FreeFinalized
    /\ IF file < Len(files)
       THEN /\ file' = file + 1 /\ chunk' = files[file + 1]
            /\ robot' = 1 /\ pos' = 1 /\ phase' = "robot" /\ pass' = FirstPass(files[file + 1])
            /\ sess' = Closed /\ total' = NoTotals /\ credit' = << >> /\ ids' = NoIds
            /\ types' = NoTypes /\ chain' = NoChain
            /\ bands' = NoBands /\ bonus' = NoBonus /\ collect' = NoCollect
       ELSE /\ phase' = "merged"
            /\ UNCHANGED <<file, chunk, robot, pos, pass, sess, total, credit, ids, types, chain,
                           bands, bonus, collect>>
    /\ UNCHANGED <<rules, manifest, files, report>>
-----------------------------------------------------------------------------
(* The report.                                                             *)

(* The return's denominator: what the sessions wagered.                    *)
EffectiveBet == IF acc.sessions > 0 /\ acc.sessionBet # 0 THEN acc.sessionBet ELSE acc.bet

Behavior(st) ==
    CASE At(acc.typePaid, st) = 0 -> "free"
      [] At(acc.typePaid, st) = acc.typeRounds[st] -> "paid"
      [] OTHER -> "mixed"

TypeRows ==
    [st \in DOMAIN acc.typeRounds |->
        [rounds |-> acc.typeRounds[st], win |-> acc.typeWin[st], behavior |-> Behavior(st)]]

(* A pay id's category follows the SpinType of most of its hits, when that *)
(* has four fifths of them.                                                *)
Category(p) ==
    LET hit == {k \in DOMAIN acc.byType : k[1] = p}
        all == SumOver(hit, LAMBDA k : acc.byType[k])
        top == {k \in hit : \A l \in hit : acc.byType[l] <= acc.byType[k]}
        main == CHOOSE k \in top : \A l \in top : k[2] <= l[2]
    IN  CASE hit = {} -> None
          [] hit # {} /\ (5 * acc.byType[main] < 4 * all \/ Behavior(main[2]) = "mixed") -> "mixed"
          [] OTHER -> IF Behavior(main[2]) = "paid" THEN "paid" ELSE "bonus"

PidRows ==
    [p \in DOMAIN acc.pidWin |-> [win |-> acc.pidWin[p], hits |-> At(acc.hits, p), category |-> Category(p)]]
-----------------------------------------------------------------------------
(* The integrity gate, on the rows of the report.                          *)

(* Mutant of FallbackIds: the chunk's residual does not count as a bucket. *)
FallbackIdsOfTypes(rows) == {p \in DOMAIN rows : p[1] = "unattributed"}

FallbackIds(rows) == {p \in DOMAIN rows : p[1] \in {"unattributed", "residual"}}

MissingAnchors(rows) ==
    {a \in manifest.anchors : a \notin DOMAIN rows \/ rows[a].hits = 0}

(* The sessions' win against the total: below one per cent apart it is ok, *)
(* below five a warning.                                                   *)
Conservation ==
    LET gap == IF acc.sessionWin < acc.win THEN acc.win - acc.sessionWin ELSE acc.sessionWin - acc.win
    IN  CASE ~manifest.real \/ acc.win = 0 -> "skipped"
          [] manifest.real /\ acc.win > 0 /\ 100 * gap < acc.win -> "ok"
          [] manifest.real /\ acc.win > 0 /\ 100 * gap >= acc.win /\ 20 * gap < acc.win -> "warn"
          [] OTHER -> "fail"

Gate(rows) ==
    LET sums == SumOver(DOMAIN rows, LAMBDA p : rows[p].win) = acc.win
        named == FallbackIds(rows) = {}
        covered == MissingAnchors(rows) = {}
    IN  [sums |-> sums, named |-> named, covered |-> covered,
         passed |-> sums /\ named /\ covered, conservation |-> Conservation]

(* The gate of the command line scans the raw rounds afresh: each pay id   *)
(* must have been routed to the SpinTypes whose rounds name it.  It does   *)
(* not apply to a machine that is declared to have trigger sessions.       *)
AllRobots == UNION {{<<f, k>> : k \in DOMAIN files[f]} : f \in DOMAIN files}
AllRounds == UNION {{<<a[1], a[2], i>> : i \in DOMAIN files[a[1]][a[2]]} : a \in AllRobots}
RobotOf(a) == files[a[1]][a[2]]
RoundAt(x) == RobotOf(x)[x[3]]
OfType(st) == {x \in AllRounds : RoundAt(x).st = st}

FreshDispatch ==
    LET named(x) == (DOMAIN RoundAt(x).pays) \X {RoundAt(x).st}
    IN  [k \in UNION {named(x) : x \in AllRounds} |-> Cardinality({x \in AllRounds : k \in named(x)})]

(* Mutant of RoutedAsRaw: a pay id that only the raw rounds have is missed.*)
RoutedAsListed == \A k \in DOMAIN acc.byType : At(FreshDispatch, k) = acc.byType[k]

RoutedAsRaw == acc.byType = FreshDispatch

OfflineGate(rows) == Gate(rows).passed /\ (manifest.patterned \/ RoutedAsRaw)

Emit ==
    /\ phase = "merged"
    /\ report' = [bet |-> EffectiveBet, win |-> acc.win,
                  sessions |-> acc.sessions, won |-> acc.sessionsWon, profit |-> acc.sessionsProfit,
                  types |-> TypeRows, pids |-> PidRows, payouts |-> PayoutRows, dims |-> DimRows,
                  outcomes |-> OutcomeRows, paidBands |-> PaidBandRows, multiplier |-> MultiplierRows(acc),
                  free |-> FreeSection, chains |-> ChainSection(acc), collect |-> CollectSection(acc),
                  ruin |-> RuinRows(acc.ruins), gate |-> Gate(PidRows), offline |-> OfflineGate(PidRows)]
    /\ phase' = "reported"
    /\ UNCHANGED <<chunk, rules, robot, pos, pass, sess, total, credit, ids, types, chain,
                   manifest, paths, bands, bonus, collect, free, features, files, file, acc>>

ReadChunk == TallyStep /\ UNCHANGED <<features, files, file, acc, report>>

EngineNext == ReadChunk \/ Merge \/ Emit

EngineSpec == EngineInit /\ [][EngineNext]_engineVars
-----------------------------------------------------------------------------
(* PROPERTIES                                                              *)

Seqs == INSTANCE SequencesExt

(* The rounds of the cell and what is said of them as a whole.             *)
WagersIn(a) == WagersOf(CostUnreliable(files[a[1]][1]), RobotOf(a))

(* The round that opened a round's block, and its label, said of the cell  *)
(* as a whole.                                                             *)
BlockOf(x) ==
    LET before == {i \in WagersIn(x) : i <= x[3]} IN IF before = {} THEN None ELSE Max(before)
LabelOf(x) ==
    LET r == RoundAt(x)
    IN  Label(manifest.paths[r.st], r, IF BlockOf(x) = None THEN None ELSE RobotOf(x)[BlockOf(x)])

SplitIn(f, st) ==
    Cardinality({LabelOf(x) : x \in {x \in OfType(st) : x[1] = f /\ Real(LabelOf(x))}}) >= 2
WinOfRounds(S) == SumOver(S, LAMBDA x : RoundWin(RoundAt(x)))

(* What a robot's bonus rounds and trigger sessions leave and take.        *)
LeftAt(x) ==
    IF \E s \in SessionsOf(RobotOf(x)) : x[3] \in s.bonus THEN 0
    ELSE LET rest == RoundWin(RoundAt(x)) - PaySum(RoundCredits(RoundAt(x)))
         IN  IF rest > 0 THEN rest ELSE 0
CreditedIn(f) ==
    SumOver({x \in AllRounds : x[1] = f}, LAMBDA x : PaySum(RoundCredits(RoundAt(x))) + LeftAt(x)) +
    SumOver(DOMAIN files[f], LAMBDA k : SumOver(SessionsOf(files[f][k]), LAMBDA s : s.win))
WinIn(f) == WinOfRounds({x \in AllRounds : x[1] = f})

(* The spins of the cell, and what a spin returned: its round and, of the  *)
(* trigger session it opened, what the player got, or else the rounds up   *)
(* to the next spin.                                                       *)
AllWagers == UNION {{<<a[1], a[2], i>> : i \in WagersIn(a)} : a \in AllRobots}
SpinWin(x) ==
    LET rs == RobotOf(x)
        opened == {s \in SessionsOf(rs) : s.at = x[3]}
        end == Min({i \in WagersIn(x) : i > x[3]} \cup {Len(rs) + 1})
    IN  RoundWin(rs[x[3]]) + IF opened # {} THEN SumOver(opened, LAMBDA s : s.dim)
                             ELSE SumOver((x[3] + 1)..(end - 1), LAMBDA i : RoundWin(rs[i]))
SpinBand(x) == Band(SpinWin(x), BetAmount(RoundAt(x)))

(* The return's bet is what the spins wagered, each once.                  *)
BetIsWagered ==
    AllWagers # {} => report.bet = SumOver(AllWagers, LAMBDA x : BetAmount(RoundAt(x)))

(* A pay id's win is its win in the SpinTypes, the win of the sessions it  *)
(* opened included: these are missing there only if no round of the        *)
(* SpinType they were opened in names it, and a pay id is listed in the    *)
(* SpinTypes of the rounds that name it and no other.                      *)
PidsMatchPayouts ==
    LET named(p, st) == \E x \in OfType(st) : p \in DOMAIN RoundCredits(RoundAt(x))
        unlisted(a, p) == {s \in SessionsOf(RobotOf(a)) : s.anchor = p /\ ~named(p, RobotOf(a)[s.at].st)}
    IN  \A p \in DOMAIN report.pids : p[1] # "residual" =>
            /\ report.pids[p].win =
                   SumOver({k \in DOMAIN report.payouts : k[1] = p}, LAMBDA k : report.payouts[k].win) +
                   SumOver(AllRobots, LAMBDA a : SumOver(unlisted(a, p), LAMBDA s : s.win))
            /\ p[1] # "unattributed" => {k[2] : k \in {k \in DOMAIN report.payouts : k[1] = p}} =
                   {st \in DOMAIN report.types : named(p, st)}

(* The labels of a SpinType hold its rounds, its win and the steps from it.*)
LabelsMatchTypes ==
    report.free # None => \A st \in DOMAIN manifest.paths \cap DOMAIN report.types :
        LET rows == report.free.paths
            labels == {key \in DOMAIN rows : key[1] = st}
        IN  /\ SumOver(labels, LAMBDA key : rows[key].rounds) = report.types[st].rounds
            /\ SumOver(labels, LAMBDA key : rows[key].win) = report.types[st].win
            /\ SumOver({n \in DOMAIN features.pathNext : n[1][1] = st}, LAMBDA n : features.pathNext[n])
                  = Cardinality({x \in OfType(st) : x[3] < Len(RobotOf(x))})

(* A path's sessions are the blocks it opened, alone or with others, in    *)
(* the chunks where it opened one alone.                                   *)
PathSessionsAreBlocks ==
    report.free # None => \A key \in {key \in DOMAIN report.free.paths : Real(key[2])} :
        LET mine == {x \in OfType(key[1]) : BlockOf(x) # None /\ key[2] \in {LabelOf(x)} \cup Members(LabelOf(x))}
            counted == {x \in mine : \E y \in OfType(key[1]) : y[1] = x[1] /\ LabelOf(y) = key[2]}
        IN  report.free.paths[key].sessions = Cardinality({<<x[1], x[2], BlockOf(x)>> : x \in counted})

(* A pay id's win in a split SpinType is given out to the labels once, all *)
(* of it if each chunk shows two paths and a win; the outcomes of a path   *)
(* are those of its rounds in the chunks that are split.                   *)
SharesMatchPayouts ==
    /\ \A k \in DOMAIN report.payouts :
          LET given == SumOver({row \in DOMAIN report.dims : row[1] = k[1] /\ row[2][1] = k[2]},
                              LAMBDA row : report.dims[row].win)
              in(f) == {x \in OfType(k[2]) : x[1] = f}
              whole(f) == in(f) = {} \/ (SplitIn(f, k[2]) /\ WinOfRounds(in(f)) > 0)
          IN  /\ given <= Unit * report.payouts[k].win
              /\ (k[2] \in DOMAIN manifest.paths /\ \A f \in DOMAIN files : whole(f)) =>
                    given = Unit * report.payouts[k].win
    /\ \A key \in DOMAIN report.outcomes : Real(key[2]) =>
          report.outcomes[key].rounds =
              Cardinality({x \in OfType(key[1]) : SplitIn(x[1], key[1]) /\ LabelOf(x) = key[2]})

(* A SpinType's bands hold its rounds and its win, its paid bands the spins*)
(* it wagered and, if it is a paid one, all it won; the profile of the     *)
(* multipliers has each spin in its band; a trigger session is settled in  *)
(* one SpinType.                                                           *)
BandsAddUp ==
    /\ \A st \in DOMAIN report.types :
          LET mine == {x \in DOMAIN acc.bands : x[1] = st}
              paid == {x \in AllWagers : RoundAt(x).st = st}
          IN  /\ SumOver(mine, LAMBDA x : acc.bands[x].rounds) = report.types[st].rounds
              /\ SumOver(mine, LAMBDA x : acc.bands[x].win) = report.types[st].win
              /\ st \in DOMAIN report.paidBands <=> paid # {}
              /\ paid # {} =>
                    LET rows == report.paidBands[st].rows
                        won == SumOver(DOMAIN rows, LAMBDA b : rows[b].win)
                    IN  /\ report.paidBands[st].all = Cardinality(paid)
                        /\ won = WinOfRounds(paid)
                        /\ report.types[st].behavior = "paid" => won = report.types[st].win
    /\ AllWagers # {} =>
          LET rows == report.multiplier.rows
              of(b) == {x \in AllWagers : SpinBand(x) = b}
          IN  /\ report.multiplier.all = Cardinality(AllWagers)
              /\ DOMAIN rows = {SpinBand(x) : x \in AllWagers} \ {0}
              /\ \A b \in DOMAIN rows : /\ rows[b].rounds = Cardinality(of(b))
                                       /\ rows[b].win = SumOver(of(b), SpinWin)
    /\ report.won = Cardinality({x \in AllWagers : SpinWin(x) > 0})
    /\ report.profit = Cardinality({x \in AllWagers : SpinWin(x) > BetAmount(RoundAt(x))})
    /\ SumOver(DOMAIN acc.settled, LAMBDA x : acc.settled[x].win) =
          SumOver(AllRobots, LAMBDA a : SumOver(SessionsOf(RobotOf(a)), LAMBDA s : s.dim))

(* The free spins: their openers are the steps into them from outside, a   *)
(* path's arc holds the rounds of each index, and its sessions are banded  *)
(* by what their rounds on that path alone won.                            *)
FreeSpinsAddUp ==
    report.free # None =>
        LET free_ == report.free
            key(x) == <<RoundAt(x).st, LabelOf(x)>>
            spun == {x \in AllRounds : RoundAt(x).st \in FreeTypes}
            shown == {x \in spun : RoundAt(x).index # None}
            enters(x) == /\ x[3] > 1 /\ RoundAt(x).st = free_.type
                         /\ RobotOf(x)[x[3] - 1].st \notin {free_.type} \cup OfRole({"respin"})
            listed(k, f) == \E x \in shown : x[1] = f /\ key(x) = k
            on(k, x) == RoundAt(x).st = k[1] /\ k[2] \in {LabelOf(x)} \cup Members(LabelOf(x))
            blocks(k) == {<<x[1], x[2], BlockOf(x)>> :
                             x \in {x \in spun : on(k, x) /\ BlockOf(x) # None /\ listed(k, x[1])}}
            won(k, b) == SumOver({x \in spun : key(x) = k /\ <<x[1], x[2], BlockOf(x)>> = b},
                                 LAMBDA x : Max({0, RoundWin(RoundAt(x))}))
        IN  /\ free_.openers = Cardinality({x \in AllRounds : enters(x)})
            /\ free_.rounds = Cardinality(OfType(free_.type))
            /\ free_.arcs = [at \in {<<key(x), RoundAt(x).index>> : x \in {x \in shown : Real(LabelOf(x))}} |->
                  LET mine == {x \in shown : <<key(x), RoundAt(x).index>> = at}
                  IN  [rounds |-> Cardinality(mine), win |-> SumOver(mine, LAMBDA x : Max({0, RoundWin(RoundAt(x))})),
                       wins |-> Cardinality({x \in mine : RoundWin(RoundAt(x)) > 0})]]
            /\ \A k \in {key(x) : x \in shown} : Real(k[2]) =>
                  \A band \in 0..(Cardinality(Cutoffs) + 1) :
                      At(free_.tiers, <<k, band>>) = Cardinality({b \in blocks(k) : Band(won(k, b), Bet) = band})

(* Every chain of every robot is in the section, and the pay ids that      *)
(* trigger free spins are said to trigger the feature of most chains.      *)
ChainsMatch ==
    LET all == UNION {{<<a, S>> : S \in RunsOf(RobotOf(a), LAMBDA r : r.index # None)} : a \in AllRobots}
        of(f) == {x \in all : ChainFeature(files[x[1][1]], RobotOf(x[1]), x[2]) = f}
        target == report.chains.target
    IN  /\ report.chains.count = Cardinality(all)
        /\ \A f \in DOMAIN report.chains.features : report.chains.features[f].chains = Cardinality(of(f))
        /\ target # None /\ all # {} => \A f \in DOMAIN report.chains.features :
              Cardinality(of(f)) <= Cardinality(of(target.feature))

(* The ruin replay is that of the cell's rounds in one row, whatever their *)
(* robots and files: a session starts where the one before was broke or    *)
(* had lasted, and the rounds left over are of none.                       *)
RuinsMatch ==
    LET rs == Seqs!FlattenSeq(Seqs!FlattenSeq(files))
        left(tier, i, j) == tier * Bet + SumOver(i..(j - 1), LAMBDA l : RoundWin(rs[l]) - Num(rs[l].cost))
        broke(tier, i) == {j \in i..(i + SessionSpins - 1) \cap DOMAIN rs : Num(rs[j].cost) > left(tier, i, j) /\ Paid(rs[j])}
        end(tier, i) == IF broke(tier, i) = {} THEN i + SessionSpins ELSE Min(broke(tier, i))
        starts(tier) == LET from[i \in 1..(Len(rs) + SessionSpins)] ==
                                IF i > Len(rs) THEN {} ELSE {i} \cup from[end(tier, i)]
                        IN  from[1]
    IN  \A tier \in Tiers :
            LET ruined == {i \in starts(tier) : broke(tier, i) # {}}
            IN  /\ report.ruin[tier].bankrupt = Cardinality(ruined)
                /\ report.ruin[tier].survived =
                      Cardinality({i \in starts(tier) \ ruined : i + SessionSpins - 1 <= Len(rs)})

(* The report adds up across its sections, whatever the split of the cell  *)
(* into files: each section is built by another plug-in from another tally *)
(* of the same rounds, chunk by chunk (report_engine.py's merge).          *)
ReportAddsUp ==
    phase = "reported" =>
        /\ SumOver(DOMAIN report.types, LAMBDA st : report.types[st].win) = report.win
        /\ SumOver(DOMAIN report.types, LAMBDA st : report.types[st].rounds) = Cardinality(AllRounds)
        /\ SumOver(DOMAIN acc.next, LAMBDA n : acc.next[n]) = Cardinality(AllRounds) - Cardinality(AllRobots)
        /\ BetIsWagered /\ PidsMatchPayouts
        /\ LabelsMatchTypes /\ PathSessionsAreBlocks /\ SharesMatchPayouts
        /\ BandsAddUp /\ FreeSpinsAddUp /\ ChainsMatch /\ RuinsMatch

(* The gate tells the truth about the cell: the layers pass exactly when   *)
(* no chunk credits more than it won, every credit has a name and every    *)
(* required pay id was seen; the conservation layer, where it runs, is     *)
(* about the wins that are in no session (rtp_integrity.py's promise that  *)
(* a failure of attribution cannot hide in a fallback bucket).  The gate   *)
(* of the command line also fails on a round credited to other pay ids     *)
(* than it names.                                                          *)
GateTellsTheTruth ==
    phase = "reported" =>
        LET seen(p) == \/ \E x \in AllRounds : p \in DOMAIN RoundPays(RoundAt(x))
                       \/ \E a \in AllRobots : \E s \in SessionsOf(RobotOf(a)) : s.anchor = p /\ s.win # 0
            outside == SumOver(AllRobots, LAMBDA a : Outside(RobotOf(a), WagersIn(a)))
            agree == \A a \in AllRobots : Agree(RobotOf(a), WagersIn(a))
        IN  /\ report.gate.sums <=> \A f \in DOMAIN files : CreditedIn(f) <= WinIn(f)
            /\ report.gate.named <=> /\ \A x \in AllRounds : LeftAt(x) = 0
                                     /\ \A f \in DOMAIN files : CreditedIn(f) >= WinIn(f)
            /\ report.gate.covered <=> \A p \in manifest.anchors : seen(p)
            /\ report.gate.passed <=> report.gate.sums /\ report.gate.named /\ report.gate.covered
            /\ report.offline <=>
                 /\ report.gate.passed
                 /\ manifest.patterned \/ \A x \in AllRounds :
                       /\ DOMAIN RoundCredits(RoundAt(x)) = DOMAIN RoundAt(x).pays
                       /\ LeftAt(x) = 0
            /\ manifest.real /\ report.win > 0 /\ agree =>
                  (report.gate.conservation = "ok" <=> 100 * outside < report.win)
=============================================================================
