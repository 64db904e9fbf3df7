------------------------------ MODULE Evidence ------------------------------
(***************************************************************************)
(* What becomes of the data of a review: redaction at submission, the      *)
(* collection and normalisation of evidence, the prompt, the check of the  *)
(* identifiers Pi cites, and the key that joins reviews to findings.  One  *)
(* job after the other is submitted, fetched and answered.                 *)
(*                                                                         *)
(* A JSON value is the function from the paths at which it has a node (the *)
(* names and places passed on the way there) to these nodes: a text, the   *)
(* braces of a dictionary or the brackets of a list.  What the code does   *)
(* by recursion is then said of all paths at once.  The digest of a        *)
(* finding key is what is hashed: equal digests mean equal material.       *)
(***************************************************************************)
EXTENDS Integers, Sequences, FiniteSets, TLC

CONSTANTS
    Sensitive,      \* settings.redaction_keys, in lower case
    StableFields,   \* the fields finding_key looks at
    Lower,          \* str.lower, as a function on the field names in use
    PromptMaxRows,  \* settings.prompt_max_rows
    Selectors,      \* selector types
    Sources,        \* who submits
    Limits,         \* requested row limits
    Rows,           \* rows a runner supplies or Splunk returns
    Volatile,       \* field names that say nothing about what was detected
    SecretTexts,    \* texts that occur in sensitive fields only
    MaxRows,        \* bound: rows of one run
    MaxJobs         \* bound: jobs reviewed

ASSUME EvidenceAssumption ==
    /\ {PromptMaxRows, MaxRows, MaxJobs} \subseteq Nat
    /\ Limits \subseteq Nat \ {0}

VARIABLES
    configured,  \* Splunk is configured
    stage,       \* the step the current job is at
    raw,         \* history: the rows of the run, before redaction
    job,         \* the stored job
    evidence,    \* the normalised evidence
    prompt,      \* what Pi is shown
    latest,      \* the decision stored last, with its evidence rows
    reviews      \* history: completed reviews with their rows and keys

vars == <<configured, stage, raw, job, evidence, prompt, latest, reviews>>

Least(a, b) == IF a <= b THEN a ELSE b

Names == DOMAIN Lower

\* One step down: to the value of a name, or to a place in a list.
Key(name) == <<"key", name>>
Place(i) == <<"item", i>>
Steps == ({"key"} \X Names) \union ({"item"} \X Nat)

TextNode(t) == [is |-> "text", text |-> t]
Text(t) == [p \in {<<>>} |-> TextNode(t)]

\* A node with values below it.
Grown(node, below) ==
    [p \in {<<>>} \union UNION {{<<s>> \o q : q \in DOMAIN below[s]} : s \in DOMAIN below} |->
        IF p = <<>> THEN node ELSE below[Head(p)][Tail(p)]]

Dict(f) == Grown([is |-> "dict"], [s \in {Key(n) : n \in DOMAIN f} |-> f[s[2]]])
List(l) == Grown([is |-> "list", len |-> Len(l)], [s \in {Place(i) : i \in DOMAIN l} |-> l[s[2]]])

\* The value one step below the root of v, and the items of a list.
At(v, s) == [q \in {Tail(p) : p \in {p \in DOMAIN v : p # <<>> /\ Head(p) = s}} |-> v[<<s>> \o q]]
Items(v) == [i \in 1..v[<<>>].len |-> At(v, Place(i))]

\* None or the empty string
Nothing == Text("")
Redacted == Text("[REDACTED]")

\* isinstance(v, dict), isinstance(v, list)
Is(v, type) == v[<<>>].is = type
Has(v, name) == Is(v, "dict") /\ <<Key(name)>> \in DOMAIN v
Get(v, name) == IF Has(v, name) THEN At(v, Key(name)) ELSE Nothing

\* v or w
FirstOf(v, w) == IF v \in {Nothing, Dict(<<>>), List(<<>>)} THEN w ELSE v

\* Faulty variant: field names are compared as they are.
IsSensitiveAsIs(name) == name \in Sensitive

IsSensitive(name) == Lower[name] \in Sensitive

Hides(s) == s[1] = "key" /\ IsSensitive(s[2])

\* redact, on dictionaries and lists at any depth: the value of a sensitive
\* name is replaced, and nothing is left below it.
Redact(v) ==
    [p \in {p \in DOMAIN v : \A i \in 1..Len(p) - 1 : ~Hides(p[i])} |->
        IF p # <<>> /\ Hides(p[Len(p)]) THEN Redacted[<<>>] ELSE v[p]]

\* A row that is no dictionary becomes the value of a payload.
AsItem(v) == IF Is(v, "dict") THEN v ELSE Dict([payload |-> Dict([value |-> v])])

\* f"Evidence {index + 1}"
Numbered(i) == "Evidence " \o ToString(i)

\* One round of the loop of _normalise_evidence; without a payload the item
\* itself is the payload.
Normalised(i, v) ==
    LET item == AsItem(v) IN
    [external_id |-> i,
     kind |-> FirstOf(Get(item, "kind"), Text("event")),
     title |-> FirstOf(Get(item, "title"), Text(Numbered(i))),
     uri |-> Get(item, "uri"),
     payload |-> Redact(IF Has(item, "payload") THEN Get(item, "payload") ELSE item)]

NormaliseEvidence(items) == [i \in DOMAIN items |-> Normalised(i, items[i])]

\* A row of Splunk, wrapped for _normalise_evidence; without a configured web
\* address it has no uri.
SplunkItem(row) ==
    Dict([kind |-> Text("splunk"),
          title |-> FirstOf(Get(row, "detection_name"),
                    FirstOf(Get(row, "rule"),
                    FirstOf(Get(row, "result_id"), Text("Detection event")))),
          uri |-> Nothing,
          payload |-> row])

\* Faulty variant: the fields are looked up beside the payload.
FieldsBesidePayload(item) == [n \in StableFields \intersect DOMAIN item |-> item[n]]

\* Faulty variant: the whole payload is the identity.
WholePayload(item) == IF Is(item.payload, "dict") THEN item.payload ELSE <<>>

\* The stable fields of a payload that hold something; a payload that is no
\* dictionary has none.
Identity(item) ==
    [n \in {n \in StableFields : Get(item.payload, n) # Nothing} |-> Get(item.payload, n)]

\* finding_key: an item without stable fields counts by its title and kind.
FindingKey(j, items) ==
    [selector_type |-> j.selector_type,
     source |-> j.source,
     identities |-> [i \in DOMAIN items |->
        IF DOMAIN Identity(items[i]) # {} THEN Identity(items[i])
        ELSE [title |-> items[i].title, kind |-> items[i].kind]]]

-----------------------------------------------------------------------------
(* The rows.  A runner is told what to send; the properties below hold of  *)
(* such rows.                                                              *)

TitleFields == {"detection_name", "rule", "result_id"}
PlainFields == StableFields \union TitleFields \union {"title", "kind"}

\* Lower is defined on every name in use.
ASSUME NamesAssumption ==
    PlainFields \union {"payload", "value", "uri", "evidence", "note"} \subseteq Names

ASSUME RowsAssumption ==
    \A r \in Rows :
        /\ <<>> \in DOMAIN r /\ DOMAIN r \subseteq Seq(Steps)
        /\ r = [p \in DOMAIN r |-> r[p]]

\* A secret is the text of a sensitive field, or stands below one, and is none of
\* the texts the code writes itself.
ASSUME SecretsAssumption ==
    /\ \A r \in Rows : \A p \in DOMAIN r :
        r[p].is = "text" /\ r[p].text \in SecretTexts =>
            \E i \in DOMAIN p : p[i][1] = "key" /\ Lower[p[i][2]] \in Sensitive
    /\ SecretTexts \intersect {"", "[REDACTED]", "event", "splunk", "Detection event", "none"} = {}
    /\ \A i \in 1..MaxRows : Numbered(i) \notin SecretTexts

\* "Keep stable detection and entity fields separate from timestamps": a field
\* that tells what was detected is not volatile, and it is a text or a list of
\* texts.  The host is such a field; neither it nor the payload as a whole is
\* sensitive.
ASSUME StableAssumption ==
    /\ Volatile \intersect (PlainFields \union {"payload"}) = {}
    /\ \A r \in Rows : \A p \in DOMAIN r : \A i, j \in DOMAIN p :
        i < j /\ p[i] \in {"key"} \X PlainFields => p[j][1] = "item"
    /\ "host" \in StableFields /\ "value" \notin StableFields
    /\ Sensitive \intersect {Lower["host"], Lower["payload"]} = {}

-----------------------------------------------------------------------------

NoJob == [selector_type |-> "", source |-> "", row_limit |-> 0, summary |-> Nothing]
NoDecision == [evidence |-> <<>>, evidence_ids |-> {}]

Init ==
    /\ configured \in BOOLEAN
    /\ stage = "free"
    /\ raw = <<>>
    /\ job = NoJob
    /\ evidence = <<>>
    /\ prompt = <<>>
    /\ latest = NoDecision
    /\ reviews = {}

Runs == UNION {[1..n -> Rows] : n \in 0..MaxRows}
First(n, s) == SubSeq(s, 1, Least(n, Len(s)))

RowLimit(limit) == Least(limit, PromptMaxRows)

\* submit_review stores the redacted summary and caps the row limit.
Submit(selector, source, limit, summary) ==
    /\ stage = "free"
    /\ Cardinality(reviews) < MaxJobs
    /\ job' = [selector_type |-> selector, source |-> source,
               row_limit |-> RowLimit(limit), summary |-> Redact(summary)]
    /\ raw' = IF Is(Get(summary, "evidence"), "list") THEN Items(Get(summary, "evidence")) ELSE <<>>
    /\ stage' = "claimed"
    /\ latest' = NoDecision
    /\ UNCHANGED <<configured, evidence, prompt, reviews>>

\* What review_prompt shows of the job and of its evidence.
ReviewPrompt(j, items) ==
    <<j, [i \in DOMAIN items |-> [id |-> items[i].external_id, kind |-> items[i].kind,
                                          title |-> items[i].title, payload |-> items[i].payload]]>>

Fetched(rows, items) ==
    /\ raw' = rows
    /\ evidence' = NormaliseEvidence(items)
    /\ prompt' = ReviewPrompt(job, NormaliseEvidence(items))
    /\ stage' = "prompted"
    /\ UNCHANGED <<configured, job, latest, reviews>>

Supplied == Get(job.summary, "evidence")

\* fetch_evidence without Splunk: the evidence the runner supplied, cut.
FetchSupplied ==
    /\ stage = "claimed"
    /\ ~configured
    /\ Is(Supplied, "list")
    /\ Fetched(First(job.row_limit, raw), First(job.row_limit, Items(Supplied)))

\* The worker is done with the job.
Free ==
    /\ stage' = "free"
    /\ raw' = <<>>
    /\ job' = NoJob
    /\ evidence' = <<>>
    /\ prompt' = <<>>
    /\ UNCHANGED configured

\* Nothing was supplied: RuntimeError, the attempt fails.
FetchNothing ==
    /\ stage = "claimed"
    /\ ~configured
    /\ ~Is(Supplied, "list")
    /\ UNCHANGED <<latest, reviews>>
    /\ Free

\* fetch_evidence with Splunk: the rows it returns, cut.  A line whose result
\* is no dictionary is skipped, so that a run has none.
FetchSplunk(run) ==
    /\ stage = "claimed"
    /\ configured
    /\ \A i \in DOMAIN run : Is(run[i], "dict")
    /\ LET rows == First(job.row_limit, run)
       IN Fetched(rows, [i \in DOMAIN rows |-> SplunkItem(rows[i])])

\* set(decision["evidence_ids"]).issubset(valid_ids)
CitesSupplied(ids) == ids \subseteq {evidence[i].external_id : i \in DOMAIN evidence}

\* The evidence rows of complete_job: the identifiers Pi was shown are dropped.
\* An empty payload is stored as an empty dictionary.
Stored(items) ==
    [i \in DOMAIN items |->
        [kind |-> items[i].kind, title |-> items[i].title, uri |-> items[i].uri,
         payload |-> FirstOf(items[i].payload, Dict(<<>>))]]

\* Pi cites evidence; the review is committed.
Accept(ids) ==
    /\ stage = "prompted"
    /\ CitesSupplied(ids)
    /\ latest' = [evidence |-> Stored(evidence), evidence_ids |-> ids]
    /\ reviews' = reviews \union
        {[selector_type |-> job.selector_type, source |-> job.source, rows |-> raw,
          key |-> FindingKey(job, evidence)]}
    /\ Free

\* PiError: the attempt fails.
Reject(ids) ==
    /\ stage = "prompted"
    /\ ~CitesSupplied(ids)
    /\ UNCHANGED <<latest, reviews>>
    /\ Free

Summaries == {Dict([evidence |-> List(run)]) : run \in Runs} \union {Dict([note |-> Text("none")])}

Next ==
    \/ \E selector \in Selectors, source \in Sources, limit \in Limits, summary \in Summaries :
        Submit(selector, source, limit, summary)
    \/ FetchSupplied
    \/ FetchNothing
    \/ \E run \in Runs : FetchSplunk(run)
    \/ \E ids \in SUBSET (1..MaxRows) : Accept(ids) \/ Reject(ids)

Spec == Init /\ [][Next]_vars

-----------------------------------------------------------------------------
(* Properties.                                                             *)

\* Every text that occurs in a value.
TextsIn(v) == {v[p].text : p \in {p \in DOMAIN v : v[p].is = "text"}}

\* The texts of an item, but for the title that fetch_evidence takes from a row
\* of Splunk.
Shown(item) ==
    TextsIn(item.payload) \union TextsIn(item.kind)
        \union (IF configured THEN {} ELSE TextsIn(item.title))

\* "Sprinter redacts configured keys": no text of a sensitive field reaches the
\* stored job, the prompt or the stored evidence, however it is nested or spelt,
\* and whether the runner supplied it or Splunk returned it.  The title of a row
\* of Splunk is the exception (TitlesAreRedacted).
SecretsStayOut ==
    /\ TextsIn(job.summary) \intersect SecretTexts = {}
    /\ prompt # <<>> => \A i \in DOMAIN prompt[2] : Shown(prompt[2][i]) \intersect SecretTexts = {}
    /\ \A i \in DOMAIN latest.evidence : Shown(latest.evidence[i]) \intersect SecretTexts = {}

\* "Sprinter redacts configured keys" (docs/architecture.md), in titles too.  The
\* title of a row of Splunk is taken before the row is redacted and is not redacted
\* itself, so a sensitive title field is stored and sent in the clear.
TitlesAreRedacted ==
    \A i \in DOMAIN latest.evidence :
        TextsIn(latest.evidence[i].title) \intersect SecretTexts = {}

\* A value without its volatile fields.
Lasting(v) ==
    [p \in {p \in DOMAIN v : \A i \in DOMAIN p : p[i] \notin {"key"} \X Volatile} |-> v[p]]

\* "Keep stable detection and entity fields separate from timestamps so Sprinter
\* can deduplicate findings across runs": runs of one source whose rows differ in
\* volatile fields only share their finding.
RecurrenceIsRecognised ==
    \A a, b \in reviews :
        /\ a.selector_type = b.selector_type
        /\ a.source = b.source
        /\ DOMAIN a.rows = DOMAIN b.rows
        /\ \A i \in DOMAIN a.rows : Lasting(a.rows[i]) = Lasting(b.rows[i])
        => a.key = b.key

HostOf(row) == IF ~configured /\ Has(row, "payload") THEN Get(Get(row, "payload"), "host")
                                                     ELSE Get(row, "host")

\* Runs that name different hosts are different findings, although rows may be
\* redacted, wrapped or cut on their way to the key.
EntitiesAreToldApart ==
    \A a, b \in reviews :
        (\E i \in DOMAIN a.rows \intersect DOMAIN b.rows :
            /\ HostOf(a.rows[i]) # HostOf(b.rows[i])
            /\ Nothing \notin {HostOf(a.rows[i]), HostOf(b.rows[i])})
        => a.key # b.key
=============================================================================
