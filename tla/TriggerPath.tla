---------------------------- MODULE TriggerPath ----------------------------
(***************************************************************************)
(* The trigger path extractor (analyzer/st_extract/trigger_path.py) on the *)
(* parser's second pass.  The machine's manifest declares, for some        *)
(* SpinTypes, the paths by which their rounds are reached; the extractor   *)
(* labels each such round, by a field of the round or by what opened its   *)
(* block (the paid round before it), and tallies rounds, wins, sessions    *)
(* and the SpinType that follows.  It is set up once a report and must be  *)
(* as new for each chunk.                                                  *)
(*                                                                         *)
(* A label is <<"path", p>> for a declared path, <<"multi", S>> when the   *)
(* block was opened by several, <<"unknown", v>> when v is not declared.   *)
(* A manifest is a record: rules, paths (SpinType -> declaration), anchors *)
(* (pay ids the report must have), real (every SpinType pays out),         *)
(* patterned (it declares trigger sessions), roles (SpinType -> role) and  *)
(* scatter (the pay ids that trigger free spins).                          *)
(***************************************************************************)
EXTENDS ChunkParser

VARIABLES manifest, paths

pathVars == <<vars, manifest, paths>>
-----------------------------------------------------------------------------
NoPaths == [block |-> None, prev |-> None, rounds |-> << >>, win |-> << >>, wins |-> << >>,
            sessions |-> {}, next |-> << >>]

(* A path is opened by a pay id that paid nothing or by a counter's peak.  *)
OpenedBy(anchor, r) ==
    IF anchor[1] = "pay" THEN anchor \in DOMAIN r.pays /\ r.pays[anchor] = 0 ELSE r.cc = anchor[2]

(* The labels by the field and by the opening paid round.                  *)
FieldLabel(block, r) ==
    IF r.mark \in DOMAIN block.map THEN <<"path", block.map[r.mark]>> ELSE <<"unknown", r.mark>>

AnchorLabel(block, opener) ==
    LET matched == {p \in DOMAIN block.opened : OpenedBy(block.opened[p], opener)}
    IN  CASE opener = None -> <<"unknown", None>>
          [] opener # None /\ matched = {} -> <<"unknown", None>>
          [] opener # None /\ Cardinality(matched) = 1 -> <<"path", CHOOSE p \in matched : TRUE>>
          [] OTHER -> <<"multi", matched>>

Label(block, r, opener) == IF block.field THEN FieldLabel(block, r) ELSE AnchorLabel(block, opener)

(* The paths a block with this label counts as a session of, besides it.   *)
Members(label) == IF label[1] = "multi" THEN {<<"path", p>> : p \in label[2]} ELSE {}
Real(label) == label[1] = "path"

(* The round that opened the block of the current one, and its label.      *)
BlockNow(paid) == IF paid THEN pos ELSE paths.block
LabelNow(r, paid) ==
    Label(manifest.paths[r.st], r, IF BlockNow(paid) = None THEN None ELSE chunk[robot][BlockNow(paid)])

(* Mutant of Observed: the transition is recorded after the early return.  *)
ObservedLate(r, paid) ==
    LET at == BlockNow(paid)
        label == LabelNow(r, paid)
        key == <<r.st, label>>
    IN  IF r.st \notin DOMAIN manifest.paths THEN [paths EXCEPT !.block = at, !.prev = None]
        ELSE [block |-> at, prev |-> key, rounds |-> Add(paths.rounds, key, 1),
              win |-> Add(paths.win, key, RoundWin(r)),
              wins |-> IF RoundWin(r) > 0 THEN Add(paths.wins, key, 1) ELSE paths.wins,
              sessions |-> paths.sessions \cup
                  IF at = None THEN {} ELSE {<<r.st, l, robot, at>> : l \in {label} \cup Members(label)},
              next |-> IF paths.prev = None THEN paths.next ELSE Add(paths.next, <<paths.prev, r.st>>, 1)]

(* observe_round: the step from a declared round is recorded first, also   *)
(* when this round is of a SpinType nobody declared.                       *)
Observed(r, paid) ==
    LET at == BlockNow(paid)
        next == IF paths.prev = None THEN paths.next ELSE Add(paths.next, <<paths.prev, r.st>>, 1)
        label == LabelNow(r, paid)
        key == <<r.st, label>>
    IN  IF r.st \notin DOMAIN manifest.paths
        THEN [paths EXCEPT !.block = at, !.prev = None, !.next = next]
        ELSE [block |-> at, prev |-> key, next |-> next,
              rounds |-> Add(paths.rounds, key, 1),
              win |-> Add(paths.win, key, RoundWin(r)),
              wins |-> IF RoundWin(r) > 0 THEN Add(paths.wins, key, 1) ELSE paths.wins,
              sessions |-> paths.sessions \cup
                  IF at = None THEN {} ELSE {<<r.st, l, robot, at>> : l \in {label} \cup Members(label)}]

(* begin_robot, and the parser's own block, which is the robot's.          *)
NewRobot == [paths EXCEPT !.block = None, !.prev = None]

(* The parser's steps, with the extractor's hooks.                         *)
PathBeginRobot == BeginRobot /\ paths' = NewRobot /\ UNCHANGED manifest
PathRound == Round /\ paths' = Observed(Current, PaidNow) /\ UNCHANGED manifest
PathEndRobot == EndRobot /\ UNCHANGED <<manifest, paths>>
PathFinish == Finish /\ UNCHANGED <<manifest, paths>>

ParserStep == PathBeginRobot \/ PathRound \/ PathEndRobot \/ PathFinish

(* finalize_chunk's table: only labels that rounds had appear in it.       *)
SessionsOn(key) == Cardinality({s \in paths.sessions : <<s[1], s[2]>> = key})
PathTable ==
    [key \in DOMAIN paths.rounds |->
        [rounds |-> paths.rounds[key], win |-> paths.win[key], sessions |-> SessionsOn(key),
         wins |-> IF key \in DOMAIN paths.wins THEN paths.wins[key] ELSE 0]]
=============================================================================
