----------------------------- MODULE BurstDecode -----------------------------
(***************************************************************************)
(* decode_one_burst_from_freq (ble_sniffer.py): one window, one channel.   *)
(* Passes over symbol timings put hypotheses on a list; the best of them   *)
(* and the best whose CRC is right are returned.  A window without a right *)
(* CRC, or that looks like a tag, goes through four refinement stages and  *)
(* a bounded bit repair.                                                   *)
(*                                                                         *)
(* What a pass finds in the samples is left open: each operator maps the   *)
(* state of a decode to the SET of states it can lead to.  The list is     *)
(* only ever sorted and read at its head, so its state is the pair of      *)
(* hypotheses the next sort would bring up, found, next to the pair the    *)
(* last sort did bring up, any and crc.  parse_legacy_adv... cannot raise  *)
(* here: the length was checked to be at most 37 and the packet is whole.  *)
(***************************************************************************)
EXTENDS SequencesExt, FiniteSets, Integers

CONSTANTS
  Ranks,  \* the order of (aa_corr, pre_corr, length), as numbers
  NoHyp   \* no hypothesis: the None of the code

\* A candidate packet: does its CRC match, where does it rank, is it a tag.
Hypothesis == [crc : BOOLEAN, rank : Ranks, tag : BOOLEAN]

ASSUME DecodeAssumption == Ranks \subseteq Nat /\ NoHyp \notin Hypothesis

\* What can be found in the samples of a window, on one channel.
\* Bits that are wrong may look like a tag or not; right ones, which only
\* the channel the packet was sent on can give, say what the sender is.
Hypotheses(right, tag) ==
  [crc : {FALSE}, rank : Ranks, tag : BOOLEAN]
    \cup IF right THEN [crc : {TRUE}, rank : Ranks, tag : {tag}] ELSE {}

NewDecode ==
  [any |-> NoHyp, crc |-> NoHyp, found |-> [any |-> NoHyp, crc |-> NoHyp],
   crc_ok_any |-> FALSE, both_hit |-> FALSE, inst |-> {}]

\* The sort is stable: of two equals, the one tried first stays first.
Above(h, g) == \/ g = NoHyp
               \/ h.crc /\ ~ g.crc
               \/ h.crc = g.crc /\ h.rank > g.rank

Better(h, g) == IF Above(h, g) THEN h ELSE g

\* _try_decode: a hypothesis h that passed the header and length checks.
TryDecode(d, h) ==
  [d EXCEPT !.found = [any |-> Better(h, @.any),
                       crc |-> IF h.crc THEN Better(h, @.crc) ELSE @.crc],
            !.crc_ok_any = @ \/ h.crc]

\* One attempt at a timing: the gates fail, or they pass and nothing parses,
\* or a hypothesis comes of it.
Attempt(d, H) ==
  LET hit == [d EXCEPT !.both_hit = TRUE]
  IN  {d, hit} \cup {TryDecode(hit, h) : h \in H}

\* Two attempts stand for a grid of them.  Most grids are left as soon as any
\* CRC was right, be it one found before they were entered.
Grid(d, H) ==
  LET once == Attempt(d, H)
  IN  once \cup UNION {Attempt(e, H) : e \in {x \in once : ~ x.crc_ok_any}}

WholeGrid(d, H) == UNION {Attempt(e, H) : e \in Attempt(d, H)}

Rerank(d) == [d EXCEPT !.any = d.found.any, !.crc = d.found.crc]

Flag(d, name, on) == IF on THEN [d EXCEPT !.inst = @ \cup {name}] ELSE d

-----------------------------------------------------------------------------
(* The passes over (phase, polarity) pairs.  The repair pass runs when the *)
(* fast one found no right CRC, and is not left early.                     *)

BasePasses(H) ==
  LET fast == Grid(NewDecode, H)
      both == UNION {IF d.crc_ok_any THEN {d} ELSE WholeGrid(d, H) :
                       d \in fast}
      done(d) == LET e == Rerank(Flag(d, "crc_ok_base", d.crc_ok_any))
                 IN  Flag(e, "is_tag", e.any # NoHyp /\ e.any.tag)
  IN  {done(d) : d \in both}

-----------------------------------------------------------------------------
(* The refinement stages.  Each is skipped once a sort has brought up a    *)
(* hypothesis with a right CRC.                                            *)

\* Faulty variant: a stage claims a CRC that was right before it ran.
StepRefineClaims(d, H) ==
  IF d.crc # NoHyp THEN {d}
  ELSE {LET f == Rerank(Flag(e, "ran_step", TRUE))
        IN  Flag(f, "crc_ok_step", f.crc # NoHyp) : e \in Grid(d, H)}

\* _try_local_step_refine and what follows it.
StepRefine(d, H) ==
  IF d.crc # NoHyp THEN {d}
  ELSE {LET f == Rerank(Flag(e, "ran_step", TRUE))
        IN  Flag(f, "crc_ok_step", f.crc # NoHyp /\ ~ d.crc_ok_any) :
          e \in Grid(d, H)}

\* _try_piecewise_step_refine: only in a long window; credited to no stage.
Piecewise(d, H, long) ==
  IF d.crc # NoHyp THEN {d}
  ELSE {Rerank(e) : e \in IF long THEN Grid(d, H) ELSE {d}}

\* The neighbourhood of eps and frac, seeded with the kept pairs.
LocalRefine(d, H) ==
  IF d.crc # NoHyp THEN {d}
  ELSE {LET f == Rerank(Flag(e, "ran_local", TRUE))
        IN  Flag(f, "crc_ok_local", f.crc # NoHyp /\ ~ d.crc_ok_any) :
          e \in Grid(d, H)}

\* _try_soft_flip_crc_repair: the list is not sorted after it.
SoftFlip(d, H) == IF d.crc # NoHyp THEN {d} ELSE Grid(d, H)

\* Faulty variant: the list is not sorted after this stage either.
CfoStageUnsorted(d, H) ==
  IF d.crc # NoHyp THEN {d}
  ELSE {Flag(e, "ran_cfo", TRUE) : e \in Attempt(d, H)}

\* _try_cfo_second_stage: one attempt, on corrected samples.  The sort
\* after it also brings up what the bit repair found.
CfoStage(d, H) ==
  IF d.crc # NoHyp THEN {d}
  ELSE {LET f == Rerank(Flag(e, "ran_cfo", TRUE))
        IN  Flag(f, "crc_ok_cfo", f.crc # NoHyp /\ ~ d.crc_ok_any) :
          e \in Attempt(d, H)}

\* A tag is refined even with a right CRC: best_crc is cleared for it, and
\* put back if the stages end without one.
Refined(d, H, long) ==
  LET forced == "is_tag" \in d.inst
      entered == Flag(d, "is_long", long)
      cleared == IF forced THEN [entered EXCEPT !.crc = NoHyp] ELSE entered
      stepped == StepRefine(cleared, H)
      pieced == UNION {Piecewise(e, H, long) : e \in stepped}
      local == UNION {LocalRefine(e, H) : e \in pieced}
      flipped == UNION {SoftFlip(e, H) : e \in local}
      last == UNION {CfoStage(e, H) : e \in flipped}
      restored(e) == IF forced /\ e.crc = NoHyp
                     THEN [e EXCEPT !.crc = d.crc] ELSE e
  IN  IF ~ long /\ ~ forced THEN {entered} ELSE {restored(e) : e \in last}

Decodes(right, tag, long) ==
  LET H == Hypotheses(right, tag)
      finish(d) == IF d.found.any # NoHyp
                       /\ (d.crc = NoHyp \/ "is_tag" \in d.inst)
                   THEN Refined(d, H, long) ELSE {d}
  IN  UNION {finish(d) : d \in BasePasses(H)}

-----------------------------------------------------------------------------
(* Properties of one decode.                                               *)

Stages == {"crc_ok_base", "crc_ok_step", "crc_ok_local", "crc_ok_cfo"}

\* What is returned is the best that was found: no stage, and no clearing of
\* best_crc to force one, loses a packet whose CRC was right or returns a
\* lesser one.
ReturnsBest(d) == d.any = d.found.any /\ d.crc = d.found.crc

\* A recovered CRC is credited to one stage at most, and a window without
\* one to none.
CreditedOnce(d) ==
  /\ Cardinality(Stages \cap d.inst) <= 1
  /\ Stages \cap d.inst # {} => d.crc # NoHyp

=============================================================================
