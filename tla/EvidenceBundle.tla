------------------------------ MODULE EvidenceBundle ------------------------------
(***************************************************************************)
(* How the Loki collector turns the answers to its two queries into the    *)
(* bundle the model is asked about: grouping by signature, the caps per    *)
(* source and per bundle, the loop that drops items until the bundle fits, *)
(* and the alert added afterwards (app/collectors/loki.py, run_once in     *)
(* app/worker.py).  A log line is the signature it is grouped under; the   *)
(* text around it counts only through its bytes.                           *)
(***************************************************************************)
EXTENDS Integers, Sequences, SequencesExt

CONSTANTS
  Signature,       \* signatures, as numbers so that they have an order
  BadLine,         \* a line its normalizer cannot read
  LongestAnswer,   \* bound on the lines Loki returns
  Limit,           \* settings.loki_query_limit
  PerQuery,        \* 20 items out of one query
  PerSource,       \* 10 of them for the bundle
  MaxBytes,        \* MAX_EVIDENCE_BYTES
  FrameBytes,      \* the bundle without its items
  ItemBytes,       \* an item without its samples
  SampleBytes      \* one sample of a signature

ASSUME BundleAssumption ==
  /\ Signature \subseteq Nat
  /\ BadLine \notin Signature
  /\ {LongestAnswer, Limit, PerQuery, PerSource} \subseteq Nat \ {0}
  /\ {MaxBytes, FrameBytes, ItemBytes} \subseteq Nat
  /\ SampleBytes \in [Signature -> Nat]

VARIABLES
  phase,       \* how far run_once has come
  answer,      \* what Loki answered to each query
  evidence,    \* bundle.log_evidence
  truncated,   \* bundle.metadata["truncated"]
  alerts       \* bundle.alert_evidence

vars == <<phase, answer, evidence, truncated, alerts>>

Source == {"application", "mysql_lock"}
Line == Signature \cup {BadLine}

(* An answer is the lines of a query, or the query failed: Loki was late,  *)
(* refused, or sent no result; or its JSON, or a stream in it, is no       *)
(* object.                                                                 *)
Failed == [kind |-> "failed", lines |-> <<>>]
Misshapen == [kind |-> "misshapen", lines |-> <<>>]
Answer == {Failed, Misshapen} \cup [kind : {"lines"}, lines : SeqOf(Line, LongestAnswer)]

(* Lines of one signature, or what stands for a query without lines.       *)
GroupItem == [ source : Source, status : {"OK"}, signature : Signature,
               count : Nat \ {0}, samples : 0..2, id : Nat ]

EmptyItem == [ source : Source, status : {"NO_DATA", "QUERY_FAILED"}, signature : {0},
               count : {0}, samples : {0}, id : Nat ]

Item == GroupItem \cup EmptyItem

TypeOK ==
  /\ phase \in {"query", "combine", "shrink", "bundled", "ready", "dead"}
  /\ answer \in [Source -> Answer]
  /\ evidence \in Seq(Item)
  /\ truncated \in BOOLEAN
  /\ alerts \in 0..1

Init ==
  /\ phase = "query"
  /\ answer = [s \in Source |-> Failed]
  /\ evidence = <<>>
  /\ truncated = FALSE
  /\ alerts = 0

--------------------------------------------------------------------------------
(* One query                                                               *)

(* The normalizers stop reading at the limit.                              *)
Read(a) == SubSeq(a.lines, 1, IF Len(a.lines) < Limit THEN Len(a.lines) ELSE Limit)

Occurrences(lines, sig) == Cardinality({n \in DOMAIN lines : lines[n] = sig})

Placeholder(source, status) ==
  [ source |-> source, status |-> status, signature |-> 0, count |-> 0,
    samples |-> 0, id |-> 1 ]

(* Mutant: every line of a group is kept as a sample.                      *)
GroupAllSamples(source, lines, sig) ==
  [ source |-> source, status |-> "OK", signature |-> sig,
    count |-> Occurrences(lines, sig), samples |-> Occurrences(lines, sig), id |-> 1 ]

Group(source, lines, sig) ==
  LET n == Occurrences(lines, sig) IN
  [ source |-> source, status |-> "OK", signature |-> sig, count |-> n,
    samples |-> IF n < 2 THEN n ELSE 2, id |-> 1 ]

Groups(source, lines) == {Group(source, lines, sig) : sig \in ToSet(lines)}

(* Mutant: rarest first.                                                   *)
RarestFirst(a, b) ==
  a.count < b.count \/ (a.count = b.count /\ a.signature < b.signature)

(* key = (-count, signature)                                               *)
Before(a, b) ==
  a.count > b.count \/ (a.count = b.count /\ a.signature < b.signature)

(* sorted(): the place of an item is how many come before it.              *)
Sorted(items) ==
  [n \in 1..Cardinality(items) |->
     CHOOSE a \in items : Cardinality({b \in items : Before(b, a)}) = n - 1]

Prefix(s, n) == SubSeq(s, 1, IF Len(s) < n THEN Len(s) ELSE n)

Grouped(source, lines) ==
  Prefix(Sorted(Groups(source, lines)), PerQuery)

(* A MySQL line shlex cannot split is a ValueError, which fails the whole  *)
(* query; no application line is one, see Dies.                            *)
Unreadable(a) == \E n \in DOMAIN Read(a) : Read(a)[n] = BadLine

Normalized(source) ==
  LET a == answer[source] IN
  CASE a.kind # "lines" \/ Unreadable(a) -> <<Placeholder(source, "QUERY_FAILED")>>
    [] a.kind = "lines" /\ Read(a) = <<>>  -> <<Placeholder(source, "NO_DATA")>>
    [] OTHER                               -> Grouped(source, Read(a))

Query ==
  /\ phase = "query"
  /\ answer' \in [Source -> Answer]
  /\ phase' = "combine"
  /\ UNCHANGED <<evidence, truncated, alerts>>

(* payload.get and stream.get of what is no object are an AttributeError   *)
(* for either source, and so is parsed.get of an application line that is  *)
(* JSON but no object; neither _collect_query nor run_once handles it.     *)
Dies ==
  \/ \E s \in Source : answer[s] = Misshapen
  \/ Unreadable(answer["application"])

Die ==
  /\ phase = "combine"
  /\ Dies
  /\ phase' = "dead"
  /\ UNCHANGED <<answer, evidence, truncated, alerts>>

--------------------------------------------------------------------------------
(* _combine_evidence                                                       *)

Renumbered(items) == [n \in DOMAIN items |-> [items[n] EXCEPT !.id = n]]

(* Mutant: each source keeps the numbers of its own list.                  *)
CombinedAsNumbered(app, mysql) ==
  Renumbered(Prefix(app, PerSource)) \o Renumbered(Prefix(mysql, PerSource))

Combined(app, mysql) == Renumbered(Prefix(app, PerSource) \o Prefix(mysql, PerSource))

Collected == Combined(Normalized("application"), Normalized("mysql_lock"))

Combine ==
  /\ phase = "combine"
  /\ ~Dies
  /\ evidence' = Collected
  /\ phase' = "shrink"
  /\ UNCHANGED <<answer, truncated, alerts>>

--------------------------------------------------------------------------------
(* _bundle                                                                 *)

BytesOf(item) ==
  ItemBytes + (IF item.status = "OK" THEN item.samples * SampleBytes[item.signature] ELSE 0)

LogBytes ==
  LET bytes[n \in 0..Len(evidence)] ==
        IF n = 0 THEN FrameBytes ELSE bytes[n - 1] + BytesOf(evidence[n])
  IN  bytes[Len(evidence)]

(* Mutant: the frame around the items is not counted.                      *)
TooLargeUnframed == LogBytes - FrameBytes > MaxBytes

TooLarge == LogBytes > MaxBytes

(* bundle.log_evidence.pop()                                               *)
Shorter(items) == Front(items)

DropLast ==
  /\ phase = "shrink"
  /\ TooLarge
  /\ Len(evidence) > 1
  /\ evidence' = Shorter(evidence)
  /\ truncated' = TRUE
  /\ UNCHANGED <<phase, answer, alerts>>

DropSamples ==
  /\ phase = "shrink"
  /\ TooLarge
  /\ Len(evidence) = 1
  /\ evidence' = [evidence EXCEPT ![1].samples = 0]
  /\ truncated' = TRUE
  /\ phase' = "bundled"
  /\ UNCHANGED <<answer, alerts>>

Fits ==
  /\ phase = "shrink"
  /\ ~TooLarge
  /\ phase' = "bundled"
  /\ UNCHANGED <<answer, evidence, truncated, alerts>>

(* run_once adds the alert to the finished bundle.                         *)
AttachAlert ==
  /\ phase = "bundled"
  /\ alerts' = 1
  /\ phase' = "ready"
  /\ UNCHANGED <<answer, evidence, truncated>>

Next ==
  Query \/ Die \/ Combine \/ DropLast \/ DropSamples \/ Fits \/ AttachAlert

Spec == Init /\ [][Next]_vars

--------------------------------------------------------------------------------
(* Properties.                                                             *)

Bundled == phase \in {"bundled", "ready"}

(* The ids of a bundle are L1, L2, ... without a gap or a double, whatever *)
(* was dropped, so that an id the model cites means one item.              *)
IdsAreCitable == phase = "shrink" \/ Bundled =>
  /\ evidence # <<>>
  /\ \A n \in DOMAIN evidence : evidence[n].id = n

(* What is dropped of a source is never more frequent than what is kept of *)
(* it, through the cap of the query, the cap of the source and the loop.   *)
FrequentKept == Bundled =>
  \A s \in Source : \A n \in DOMAIN evidence :
    evidence[n].source = s /\ evidence[n].status = "OK" =>
      \A sig \in ToSet(Read(answer[s])) :
        \/ \E m \in DOMAIN evidence : evidence[m].source = s /\ evidence[m].signature = sig
        \/ Occurrences(Read(answer[s]), sig) <= evidence[n].count

(* The logs of a bundle fit the limit, or are one item without samples.    *)
LogsFit == Bundled =>
  \/ LogBytes <= MaxBytes
  \/ Len(evidence) = 1 /\ evidence[1].samples = 0

(* loki.py:255 says half of the bundle is reserved for each source, so that*)
(* however many signatures one has the other is not pushed out.  The loop  *)
(* that shrinks the bundle drops the MySQL items first, to the last.       *)
NeitherSourcePushedOut == Bundled =>
  \A s \in Source :
    Head(Normalized(s)).status = "OK" =>
      \E n \in DOMAIN evidence : evidence[n].source = s
--------------------------------------------------------------------------------
(* The inductive invariant.                                                *)

InBundle == phase \in {"shrink", "bundled", "ready"}

(* The bundle is what the two queries gave up to some place, item for item *)
(* but for the samples, and all of it unless it says otherwise.            *)
CutOfCollected == InBundle =>
  /\ evidence # <<>>
  /\ Len(evidence) <= Len(Collected)
  /\ \A n \in DOMAIN evidence :
       evidence[n] = [Collected[n] EXCEPT !.samples = evidence[n].samples]
  /\ ~truncated => evidence = Collected

IInv ==
  /\ TypeOK
  /\ CutOfCollected
  /\ LogsFit
================================================================================
