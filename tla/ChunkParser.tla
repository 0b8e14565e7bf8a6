---------------------------- MODULE ChunkParser ----------------------------
(***************************************************************************)
(* The analyzer's reading of one sampled chunk (analyzer/core/parser.py,   *)
(* trigger_sessions.py, round_win.py and its rules, play_types/bcm_cycle): *)
(* a chunk is a sequence of robots, a robot a sequence of rounds.  A first *)
(* pass over a robot finds its collect cycle and its trigger sessions and  *)
(* credits these; a second pass, one action per round, tells paid rounds   *)
(* from bonus rounds, keeps the open session, credits the round's win to   *)
(* pay ids and labels bonus chains.                                        *)
(*                                                                         *)
(* A round is a record: cost and bet (CostCredits, BetAmount), fresh (its  *)
(* SpinTimes differs from the round before), st (SpinType), win            *)
(* (WinCredits), amount (WinAmount), pays (PayoutIdToWinAmount), mark      *)
(* (ReMarks), cc (CollectCount); None is an absent field.  A pay id is a   *)
(* pair of a kind and a number, so that synthetic ids have kinds of their  *)
(* own.  Credits are whole numbers, so the code's tolerance of 0.5 is 0.   *)
(***************************************************************************)
EXTENDS Integers, Sequences, FiniteSets, FiniteSetsExt, TLC

CONSTANTS Chunks,    (* the responses: sequences of robots                    *)
          RuleLists, (* the configured rules: sequences of rules              *)
          Bet,       (* the chunk's bet                                       *)
          None

VARIABLES chunk, rules,  (* the response and the machine's rules              *)
          robot, pos,    (* the round the second pass is at                   *)
          phase,         (* "robot", "rounds", "finish", "done"                *)
          pass,          (* what the first pass found                         *)
          sess,          (* the open session                                  *)
          total,         (* chunk and session totals                          *)
          credit,        (* payout_id_win                                     *)
          ids,           (* payout_id_hits and the tallies per SpinType       *)
          types,         (* the tallies per SpinType                          *)
          chain          (* the bonus chains and their cycle label            *)

vars == <<chunk, rules, robot, pos, phase, pass, sess, total, credit, ids, types, chain>>
-----------------------------------------------------------------------------
(* Fields of a round.                                                      *)

Num(v) == IF v = None THEN 0 ELSE v
Paid(r) == Num(r.cost) > 0
SpinTimes(rs, i) == Cardinality({j \in 1..i : rs[j].fresh})
SumOver(S, f(_)) == MapThenSumSet(f, S)
PaySum(pays) == SumOver(DOMAIN pays, LAMBDA p : pays[p])

(* The answer of the first rule that has one, None if no rule does.        *)
FirstAnswer(answers) ==
    LET S == {k \in DOMAIN answers : answers[k] # None}
    IN  IF S = {} THEN None ELSE answers[Min(S)]

(* SettlementWinAmountRule on a bonus round it is configured for.          *)
Settles(rule, r) == rule.type = "settlement" /\ ~Paid(r) /\ r.st \in rule.settle
Previews(rule, r) == rule.type = "settlement" /\ ~Paid(r) /\ r.st \in rule.phantom

RuleWin(rule, r) ==
    IF Settles(rule, r) THEN r.amount ELSE IF Previews(rule, r) THEN 0 ELSE None

SettlementPays(rule, r) ==
    IF Settles(rule, r) /\ rule.label /\ r.amount > 0 THEN <<"st", r.st>> :> r.amount ELSE << >>

(* SynthesizePayIdRule with the spin-type label: a win without an itemised *)
(* pay id goes to the SpinType.                                            *)
SynthesizedPays(rule, r) ==
    IF r.st \in rule.sts /\ Num(r.win) > 0 /\ (rule.always \/ PaySum(r.pays) = 0)
    THEN <<"st", r.st>> :> r.win ELSE None

(* WinResidualRule: the itemised pay ids stay, the rest is the collect.    *)
ResidualPays(rule, r) ==
    IF r.st \in rule.sts /\ Num(r.win) > PaySum(r.pays)
    THEN r.pays @@ (<<"collect", r.st>> :> (r.win - PaySum(r.pays))) ELSE None

RulePays(rule, r) ==
    CASE rule.type = "settlement" -> IF Settles(rule, r) \/ Previews(rule, r)
                                     THEN SettlementPays(rule, r) ELSE None
      [] rule.type = "synthesize" -> SynthesizedPays(rule, r)
      [] rule.type = "residual"   -> ResidualPays(rule, r)
      [] rule.type = "anchor"     -> None

(* BCMCycleAnchorRule: a paid round at the cycle's peak.                   *)
RuleAnchor(rule, r, peak) ==
    IF rule.type = "anchor" /\ Paid(r) /\ peak # None /\ r.cc = peak THEN {<<"bcm", 0>>} ELSE {}

(* extract_round_win, extract_round_payouts, round_has_credited_win.       *)
RoundWin(r) ==
    LET w == FirstAnswer([k \in DOMAIN rules |-> RuleWin(rules[k], r)])
    IN  IF w = None THEN Num(r.win) ELSE w
RoundPays(r) ==
    LET p == FirstAnswer([k \in DOMAIN rules |-> RulePays(rules[k], r)])
    IN  IF p = None THEN r.pays ELSE p
Credited(r) == \E p \in DOMAIN RoundPays(r) : RoundPays(r)[p] # 0

(* extract_round_trigger_anchor: the pay ids that paid nothing, and the    *)
(* rules' own; of several, the largest number is the trigger.              *)
Anchors(r, peak) ==
    {p \in DOMAIN r.pays : r.pays[p] = 0} \cup UNION {RuleAnchor(rules[k], r, peak) : k \in DOMAIN rules}
AnchorOf(S) ==
    LET numeric == {p \in S : p[1] = "pay"}
    IN  IF numeric = {} THEN CHOOSE p \in S : TRUE
        ELSE CHOOSE p \in numeric : \A q \in numeric : q[2] <= p[2]
-----------------------------------------------------------------------------
(* The first pass over a robot's rounds.                                   *)

(* detect_cycle_peak: the collect counts from which the count fell, the    *)
(* commonest of them, on a tie the one seen first.                         *)
CyclePeak(rs) ==
    LET cc == SelectSeq([i \in DOMAIN rs |-> rs[i].cc], LAMBDA c : c # None)
        falls == {i \in 1..(Len(cc) - 1) : cc[i + 1] < cc[i] - 1 /\ cc[i] >= 5}
        count(i) == Cardinality({j \in falls : cc[j] = cc[i]})
        best == {i \in falls : \A j \in falls : count(j) <= count(i)}
    IN  IF falls = {} THEN None ELSE cc[Min(best)]

(* compute_trigger_sessions.  A session opens at a paid round with an      *)
(* anchor that a bonus round follows and lasts until the next paid round.  *)
(* Its win counts the bonus rounds that no pay id is credited with; its    *)
(* dim win, what the player got, counts them all.                          *)
SessionEnd(rs, i) == Min({j \in (i + 1)..(Len(rs) + 1) : j > Len(rs) \/ Paid(rs[j])})

(* A selector's last offer is the one accepted; rules say what each round  *)
(* of theirs is worth, so with rules all are summed.                       *)
BonusWin(rs, S, selector) ==
    LET known == {j \in S : rs[j].win # None}
    IN  IF rules # << >> \/ ~selector THEN SumOver(S, LAMBDA j : RoundWin(rs[j]))
        ELSE IF known = {} THEN 0 ELSE rs[Max(known)].win

Sessions(rs, peak) ==
    LET opens(i) == /\ Paid(rs[i]) /\ i < Len(rs) /\ ~Paid(rs[i + 1])
                    /\ Anchors(rs[i], peak) # {}
        bonus(i) == (i + 1)..(SessionEnd(rs, i) - 1)
        session(i) ==
            [at     |-> i,
             bonus  |-> bonus(i),
             anchor |-> AnchorOf(Anchors(rs[i], peak)),
             win    |-> BonusWin(rs, {j \in bonus(i) : ~Credited(rs[j])}, rs[i].mark = "Trigger"),
             dim    |-> BonusWin(rs, bonus(i), rs[i].mark = "Trigger")]
    IN  {session(i) : i \in {i \in DOMAIN rs : opens(i)}}

(* The pre-scan of the chunk's first robot: some spin has no round with a  *)
(* cost although the machine wagers.                                       *)
CostUnreliable(rs) ==
    LET spins(S) == {SpinTimes(rs, i) : i \in S}
    IN  /\ \E i \in DOMAIN rs : Num(rs[i].bet) > 0
        /\ Cardinality(spins({i \in DOMAIN rs : Paid(rs[i])})) < Cardinality(spins(DOMAIN rs))

(* payout_id_win[pid] += amount.                                           *)
Add(f, p, n) == IF p \in DOMAIN f THEN [f EXCEPT ![p] = @ + n] ELSE f @@ (p :> n)
AddAll(f, g) == [p \in DOMAIN f \cup DOMAIN g |->
    (IF p \in DOMAIN f THEN f[p] ELSE 0) + (IF p \in DOMAIN g THEN g[p] ELSE 0)]

(* Each trigger session's win goes to its trigger.                         *)
SessionCredits(sessions) ==
    [p \in {s.anchor : s \in {s \in sessions : s.win # 0}} |->
        SumOver({s \in sessions : s.anchor = p}, LAMBDA s : s.win)]
(* A trigger that its own round does not itemise is a hit once a session,  *)
(* whatever the session won.                                               *)
SessionHits(sessions, rs) ==
    LET synthetic == {s \in sessions : s.anchor \notin DOMAIN rs[s.at].pays}
    IN  [p \in {s.anchor : s \in synthetic} |-> Cardinality({s \in synthetic : s.anchor = p})]

(* Mutant of SessionCreditsByType: only rounds are booked per SpinType.    *)
SessionCreditsByTypeNever(sessions, rs) == << >>

(* The session's win is booked in the SpinType of its paid round as well;  *)
(* a SpinType of 0 is read as an absent one, -1.                           *)
SessionCreditsByType(sessions, rs) ==
    LET won == {s \in sessions : s.win # 0}
        key(s) == <<s.anchor, IF rs[s.at].st = 0 THEN -1 ELSE rs[s.at].st>>
    IN  [k \in {key(s) : s \in won} |-> SumOver({s \in won : key(s) = k}, LAMBDA s : s.win)]
-----------------------------------------------------------------------------
Closed == [open |-> FALSE, bet |-> 0, win |-> 0, spin |-> None, trigger |-> FALSE, helper |-> 0]

NoTotals == [rounds |-> 0, bet |-> 0, win |-> 0, bonus |-> 0, sessions |-> 0,
             sessionBet |-> 0, sessionWin |-> 0, loss |-> 0, streak |-> 0, streaks |-> 0]
NoIds == [hits |-> << >>, byType |-> << >>, winByType |-> << >>]
NoTypes == [rounds |-> << >>, paid |-> << >>, win |-> << >>, next |-> << >>, last |-> None]
NoChain == [open |-> FALSE, first |-> None, reset |-> FALSE, flag |-> FALSE,
            prevCc |-> 0, tagged |-> 0, rounds |-> << >>]
FirstPass(c) == [unreliable |-> CostUnreliable(c[1]), peak |-> None, sessions |-> {}]

(* The parser before the first robot of a chunk.                           *)
Ready ==
    /\ robot = 1 /\ pos = 1 /\ phase = "robot" /\ pass = FirstPass(chunk) /\ sess = Closed
    /\ total = NoTotals /\ credit = << >> /\ ids = NoIds /\ types = NoTypes /\ chain = NoChain

Init == chunk \in Chunks /\ rules \in RuleLists /\ Ready

(* The first pass: the robot's cycle, sessions and their credits.          *)
BeginRobot ==
    /\ phase = "robot" /\ robot <= Len(chunk)
    /\ LET peak == CyclePeak(chunk[robot])
           sessions == Sessions(chunk[robot], peak)
       IN  /\ pass' = [pass EXCEPT !.peak = peak, !.sessions = sessions]
           /\ credit' = AddAll(credit, SessionCredits(sessions))
           /\ ids' = [ids EXCEPT !.hits = AddAll(@, SessionHits(sessions, chunk[robot])),
                                 !.winByType = AddAll(@, SessionCreditsByType(sessions, chunk[robot]))]
    /\ phase' = "rounds" /\ pos' = 1
    /\ types' = [types EXCEPT !.last = None]
    /\ chain' = [chain EXCEPT !.open = FALSE, !.flag = FALSE, !.prevCc = 0]
    /\ UNCHANGED <<chunk, rules, robot, sess, total>>

Current == chunk[robot][pos]

(* The wager of a round: BetAmount, else CostCredits, else the chunk's.    *)
BetAmount(r) ==
    IF Num(r.bet) > 0 THEN r.bet ELSE IF Num(r.cost) > 0 THEN r.cost ELSE Bet

Charges(unreliable, r) == unreliable \/ IF r.cost = None THEN Num(r.bet) > 0 ELSE r.cost > 0
Charged(r) == Charges(pass.unreliable, r)

(* Mutant of Folded: the second record of a spin is charged again.         *)
FoldedNever(r, spin) == FALSE

(* A charged round of the open session's spin is a free continuation.      *)
Folded(r, spin) == Charged(r) /\ sess.open /\ sess.spin = spin

CurrentSpin == SpinTimes(chunk[robot], pos)
PaidNow == Charged(Current) /\ ~Folded(Current, CurrentSpin)

(* _close_session: the session's win is its paid round's and what the      *)
(* helper or the bonus rounds added; a losing streak ends at a win and a   *)
(* winning one at a loss.                                                  *)
CloseSession(t) ==
    LET won == sess.win + sess.helper
        lost == won = 0
    IN  IF ~sess.open THEN t
        ELSE [t EXCEPT !.sessions = @ + 1, !.sessionBet = @ + sess.bet, !.sessionWin = @ + won,
                       !.loss = IF lost THEN @ + 1 ELSE @,
                       !.streaks = IF t.streak # 0 /\ lost # (t.streak < 0)
                                   THEN @ + (IF t.streak < 0 THEN -t.streak ELSE t.streak) ELSE @,
                       !.streak = IF lost THEN (IF t.streak < 0 THEN @ - 1 ELSE -1)
                                  ELSE (IF t.streak > 0 THEN @ + 1 ELSE 1)]

(* Mutant of Opened: a trigger session forgets the win the helper found.   *)
OpenedWithoutHelper(r, spin, win) ==
    [open |-> TRUE, bet |-> BetAmount(r), win |-> win, spin |-> spin,
     trigger |-> \E s \in pass.sessions : s.at = pos, helper |-> 0]

(* A paid round opens a session; one that opens a trigger session carries  *)
(* the win the first pass computed for its bonus rounds.                   *)
Opened(r, spin, win) ==
    [open |-> TRUE, bet |-> BetAmount(r), win |-> win, spin |-> spin,
     trigger |-> \E s \in pass.sessions : s.at = pos,
     helper |-> SumOver({s \in pass.sessions : s.at = pos}, LAMBDA s : s.dim)]

(* What the round credits to pay ids: its pays, scaled down to the win     *)
(* when they exceed it.                                                    *)
RoundCredits(r) ==
    LET pays == RoundPays(r)
        win == RoundWin(r)
    IN  IF 0 < win /\ win < PaySum(pays)
        THEN [p \in DOMAIN pays |-> (pays[p] * win) \div PaySum(pays)]
        ELSE pays

(* Mutant of Leftover: bonus rounds of a trigger session are not excepted. *)
LeftoverTwice(r) ==
    LET rest == RoundWin(r) - PaySum(RoundCredits(r))
    IN  IF rest > 0 THEN <<"unattributed", r.st>> :> rest ELSE << >>

(* What is left of the win goes to the SpinType, unless the round is part  *)
(* of a trigger session, whose trigger has it already.                     *)
Leftover(r) ==
    LET rest == RoundWin(r) - PaySum(RoundCredits(r))
    IN  IF rest > 0 /\ ~\E s \in pass.sessions : pos \in s.bonus
        THEN <<"unattributed", r.st>> :> rest ELSE << >>

(* The hits of what the round credits, and their SpinType.                 *)
Identified(r) ==
    LET won == RoundCredits(r) @@ Leftover(r)
        once == [p \in DOMAIN won |-> 1]
        typed(f) == [k \in (DOMAIN won) \X {r.st} |-> f[k[1]]]
    IN  [hits |-> AddAll(ids.hits, once), byType |-> AddAll(ids.byType, typed(once)),
         winByType |-> AddAll(ids.winByType, typed(won))]

(* The bonus chains.  A wild nudge is transparent; a round that costs ends *)
(* the chain; the first bonus round after one opens a chain and takes the  *)
(* cycle flag with it.                                                     *)
ChainPaid(r) == pass.unreliable \/ Paid(r)
Nudge(r) == r.mark = "nudge" /\ ~Paid(r)

(* Mutant of Chained: the chain does not consume the flag.                 *)
ChainedKeepsFlag(r) ==
    IF ChainPaid(r) THEN [chain EXCEPT !.open = FALSE]
    ELSE IF Nudge(r) THEN chain
    ELSE LET first == IF chain.open THEN chain.first ELSE r.st
             reset == IF chain.open THEN chain.reset ELSE chain.flag
         IN  [chain EXCEPT !.open = TRUE, !.first = first, !.reset = reset,
                           !.tagged = IF ~chain.open /\ reset THEN @ + 1 ELSE @,
                           !.rounds = Add(@, <<first, reset, r.st>>, 1)]

Chained(r) ==
    IF ChainPaid(r) THEN [chain EXCEPT !.open = FALSE]
    ELSE IF Nudge(r) THEN chain
    ELSE LET first == IF chain.open THEN chain.first ELSE r.st
             reset == IF chain.open THEN chain.reset ELSE chain.flag
         IN  [chain EXCEPT !.open = TRUE, !.first = first, !.reset = reset,
                           !.flag = IF chain.open THEN @ ELSE FALSE,
                           !.tagged = IF ~chain.open /\ reset THEN @ + 1 ELSE @,
                           !.rounds = Add(@, <<first, reset, r.st>>, 1)]

(* The flag is raised at the cycle's peak and cleared only on a machine    *)
(* that has not collected yet.                                             *)
Flagged(c, r, paid) ==
    LET cc == Num(r.cc)
    IN  IF paid /\ cc > 0
        THEN [c EXCEPT !.flag = @ \/ cc = pass.peak, !.prevCc = cc]
        ELSE IF paid /\ c.prevCc = 0 THEN [c EXCEPT !.flag = FALSE] ELSE c

(* The tallies of the round's SpinType and of the step from the one before.*)
Typed(r, paid, win) ==
    [types EXCEPT !.rounds = Add(@, r.st, 1),
                  !.paid = IF paid THEN Add(@, r.st, 1) ELSE @,
                  !.win = Add(@, r.st, win),
                  !.next = IF types.last = None THEN @ ELSE Add(@, <<types.last, r.st>>, 1),
                  !.last = r.st]

(* One round of the second pass.                                           *)
Round ==
    /\ phase = "rounds" /\ pos <= Len(chunk[robot])
    /\ LET r == Current
           spin == CurrentSpin
           folded == Folded(r, spin)
           paid == PaidNow
           win == RoundWin(r)
           t == [total EXCEPT !.rounds = @ + 1, !.win = @ + win,
                              !.bet = @ + IF folded THEN 0 ELSE BetAmount(r)]
       IN  /\ IF paid
              THEN total' = CloseSession(t) /\ sess' = Opened(r, spin, win)
              ELSE /\ total' = [t EXCEPT !.bonus = IF sess.open THEN @ + 1 ELSE @]
                   /\ sess' = IF sess.open /\ ~sess.trigger THEN [sess EXCEPT !.win = @ + win] ELSE sess
           /\ credit' = AddAll(AddAll(credit, RoundCredits(r)), Leftover(r))
           /\ ids' = Identified(r)
           /\ types' = Typed(r, paid, win)
           /\ chain' = Flagged(Chained(r), r, paid)
    /\ pos' = pos + 1
    /\ UNCHANGED <<chunk, rules, robot, phase, pass>>

(* The end of a robot: its session and its streak end with it.             *)
EndRobot ==
    /\ phase = "rounds" /\ pos > Len(chunk[robot])
    /\ LET t == CloseSession(total)
       IN  total' = [t EXCEPT !.streaks = @ + (IF t.streak < 0 THEN -t.streak ELSE t.streak), !.streak = 0]
    /\ sess' = Closed
    /\ robot' = robot + 1
    /\ phase' = IF robot < Len(chunk) THEN "robot" ELSE "finish"
    /\ UNCHANGED <<chunk, rules, pos, pass, credit, ids, types, chain>>

CreditSum == PaySum(credit)

(* The chunk-level closer: what no pay id got is the residual.  A chunk    *)
(* without a round is refused.                                             *)
Finish ==
    /\ phase = "finish"
    /\ phase' = IF total.rounds = 0 \/ total.bet = 0 THEN "failed" ELSE "done"
    /\ IF phase' = "done" /\ total.win > CreditSum
       THEN /\ credit' = Add(credit, <<"residual", 0>>, total.win - CreditSum)
            /\ ids' = [ids EXCEPT !.hits = Add(@, <<"residual", 0>>, 1)]
       ELSE UNCHANGED <<credit, ids>>
    /\ UNCHANGED <<chunk, rules, robot, pos, pass, sess, total, types, chain>>

Next == BeginRobot \/ Round \/ EndRobot \/ Finish

Spec == Init /\ [][Next]_vars
-----------------------------------------------------------------------------
(* PROPERTIES                                                              *)

(* The rounds that wager, said of a robot as a whole: the first charged    *)
(* round of each spin.                                                     *)
WagersOf(unreliable, rs) ==
    {i \in DOMAIN rs : Charges(unreliable, rs[i]) /\ ~\E j \in 1..(i - 1) :
        Charges(unreliable, rs[j]) /\ SpinTimes(rs, j) = SpinTimes(rs, i)}
Wagers(rs) == WagersOf(pass.unreliable, rs)

SessionsOf(rs) == Sessions(rs, CyclePeak(rs))

(* The offers of a selector that were not accepted.                        *)
Unaccepted(s, rs) ==
    IF rules = << >> /\ rs[s.at].mark = "Trigger"
    THEN SumOver(s.bonus, LAMBDA j : RoundWin(rs[j])) - s.dim ELSE 0

(* What no pay id can get but the residual: an offer not accepted, or the  *)
(* rest of a bonus round of a trigger session that is itemised in part.    *)
Unexplained(s, rs) ==
    \/ Unaccepted(s, rs) > 0
    \/ \E j \in s.bonus : Credited(rs[j]) /\ PaySum(RoundPays(rs[j])) < RoundWin(rs[j])

(* A chunk's win is credited once: the pay ids sum to it, above it only if *)
(* a round names pay ids without a win, and the residual that closes the   *)
(* gap comes from trigger sessions alone (parser.py's two fallbacks).      *)
EveryWinCredited ==
    /\ CreditSum >= total.win
    /\ CreditSum > total.win =>
          \E k \in DOMAIN chunk : \E i \in DOMAIN chunk[k] :
             RoundWin(chunk[k][i]) = 0 /\ PaySum(RoundPays(chunk[k][i])) > 0
    /\ <<"residual", 0>> \in DOMAIN credit =>
          \E k \in DOMAIN chunk : \E s \in SessionsOf(chunk[k]) : Unexplained(s, chunk[k])

(* The wins in no session: before the first, and the offers not accepted.  *)
Outside(rs, wagers) ==
    LET first == IF wagers = {} THEN Len(rs) + 1 ELSE Min(wagers)
    IN  SumOver(1..(first - 1), LAMBDA i : RoundWin(rs[i])) +
        SumOver(SessionsOf(rs), LAMBDA s : Unaccepted(s, rs))
Agree(rs, wagers) == SessionsOf(rs) = {} \/ wagers = {i \in DOMAIN rs : Paid(rs[i])}

(* Each spin that wagers is one session, and a win is in one session or    *)
(* before the first, as long as the rounds that wager are those that cost  *)
(* or the robot has no trigger session (the helper goes by the cost).      *)
EveryWinInOneSession ==
    /\ total.sessions = SumOver(DOMAIN chunk, LAMBDA k : Cardinality(Wagers(chunk[k])))
    /\ (\A k \in DOMAIN chunk : Agree(chunk[k], Wagers(chunk[k]))) =>
          total.sessionWin + SumOver(DOMAIN chunk, LAMBDA k : Outside(chunk[k], Wagers(chunk[k])))
            = total.win

(* A chain opens at a bonus round whose last round but nudges costs.       *)
ChainOpens(rs, i) ==
    LET before == {j \in 1..(i - 1) : ~Nudge(rs[j])}
    IN  ~ChainPaid(rs[i]) /\ ~Nudge(rs[i]) /\ (before = {} \/ ChainPaid(rs[Max(before)]))

(* The chains labelled with the collect cycle are those that follow a peak *)
(* with no other chain between: each peak labels one chain at the most     *)
(* (parser.py's flag, consumed by the chain that opens).                   *)
PeaksLabelOneChain ==
    chain.tagged = SumOver(DOMAIN chunk, LAMBDA k :
        LET rs == chunk[k]
            atPeak(j) == j \in Wagers(rs) /\ Num(rs[j].cc) > 0 /\ rs[j].cc = CyclePeak(rs)
        IN  Cardinality({i \in DOMAIN rs : ChainOpens(rs, i) /\ \E j \in 1..(i - 1) :
                atPeak(j) /\ ~\E l \in (j + 1)..(i - 1) : ChainOpens(rs, l)}))
=============================================================================
