----------------------------- MODULE ReviewerConfig -----------------------------
(***************************************************************************)
(* The settings of a review (reviewer_config.py).  The server has a file   *)
(* and limits from its environment; a repository may have a .pr-checker.yml *)
(* of its own, which is merged over the server's settings and then held to *)
(* the server's limits.  A file is anything that YAML can hold.            *)
(***************************************************************************)
EXTENDS Integers, TLAPS

CONSTANTS Endpoints, \* settings of Qdrant and of the embedding model
          Choices    \* what is free to choose: the models, ignore_patterns

Switches == {"code_quality", "security", "test_coverage", "issue_conformance",
             "inline_comments", "summary_comment", "formal_review", "ruff", "mypy"}
Caps == {"max_prefetch_chunks", "max_search_chunks_per_call"}
NoCap == -1
Limits == Nat \cup {NoCap}

\* A float: YAML's .nan, or a number, which is given by its place in the order.
NaN == [kind |-> "nan"]
Floats(S) == {NaN} \cup [kind : {"number"}, of : S]

\* Budgets are not validated; the bytes of a parameter are to be positive, which
\* may or may not keep NaN out.
Budgets == Floats(Int)
Rates == Floats(Nat \ {0})

Configs == [on : [Switches -> BOOLEAN], cap : [Caps -> Limits], vram_budget : Budgets,
            bytes_per_param : Rates, infra : Endpoints, rest : Choices]

\* An entry of a file; "bad" is a value that validation refuses.  The entries of a
\* section that is no mapping are bad; those of a null section are absent in a
\* repository's file and bad in the server's.
Entry(S) == [kind : {"absent", "null", "bad"}] \cup [kind : {"value"}, value : S]
Entries == [on : [Switches -> Entry(BOOLEAN)], cap : [Caps -> Entry(Nat)],
            vram_budget : Entry(Budgets), bytes_per_param : Entry(Rates),
            infra : Entry(Endpoints), rest : Entry(Choices)]
\* No file, or none that is a YAML mapping; or its entries.
Files == [kind : {"none"}] \cup [kind : {"mapping"}, entries : Entries]

HasSingle(f, kinds) ==
  \/ \E s \in Switches : f.on[s].kind \in kinds
  \/ f.vram_budget.kind \in kinds \/ f.bytes_per_param.kind \in kinds
  \/ f.infra.kind \in kinds \/ f.rest.kind \in kinds
HasBad(f) == HasSingle(f, {"bad"}) \/ \E c \in Caps : f.cap[c].kind = "bad"

\* _deep_merge: "null in repo config means 'keep server default'".
Kept(entry, base) == IF entry.kind = "value" THEN entry.value ELSE base

DeepMerge(base, f) ==
  [on |-> [s \in Switches |-> Kept(f.on[s], base.on[s])],
   cap |-> [c \in Caps |-> Kept(f.cap[c], base.cap[c])],
   vram_budget |-> Kept(f.vram_budget, base.vram_budget),
   bytes_per_param |-> Kept(f.bytes_per_param, base.bytes_per_param),
   infra |-> Kept(f.infra, base.infra), rest |-> Kept(f.rest, base.rest)]

Least(a, b) == IF a <= b THEN a ELSE b

\* min and max of two floats: a comparison with NaN is false, and the first stays.
Below(a, b) == a.kind = "number" /\ b.kind = "number" /\ a.of < b.of
MinFloat(a, b) == IF Below(b, a) THEN b ELSE a
MaxFloat(a, b) == IF Below(a, b) THEN b ELSE a

EnforceLimits(merged, server) ==
  [merged EXCEPT
     !.on = [s \in Switches |-> merged.on[s] /\ server.on[s]],
     !.cap = [c \in Caps |->
                IF merged.cap[c] # NoCap /\ server.cap[c] # NoCap
                THEN Least(merged.cap[c], server.cap[c]) ELSE merged.cap[c]],
     !.vram_budget = MinFloat(merged.vram_budget, server.vram_budget),
     !.bytes_per_param = MaxFloat(merged.bytes_per_param, server.bytes_per_param),
     !.infra = server.infra]

\* A file with one bad entry is not used at all.
ForRepo(server, file) ==
  IF file.kind = "none" \/ HasBad(file.entries) THEN server
  ELSE EnforceLimits(DeepMerge(server, file.entries), server)

\* The server's own file is validated as it is: null is a value of the caps only.
LoadFile(defaults, file) ==
  IF file.kind = "none" \/ HasBad(file.entries) \/ HasSingle(file.entries, {"null"}) THEN defaults
  ELSE DeepMerge(defaults, file.entries)

\* ConfigManager.__init__: limits of the environment replace the file's.
ServerConfig(defaults, file, env) ==
  [LoadFile(defaults, file) EXCEPT !.cap = [c \in Caps |-> IF env[c] # NoCap THEN env[c] ELSE @[c]]]

-----------------------------------------------------------------------------
\* "Clamp merged config so a repo cannot escalate beyond what the server permits."
\* A repository's NaN is let through, but grants nothing: get_model_for_task turns
\* the budget, and the size of a model in bytes, into an int, which raises.
Within(config, server) ==
  /\ \A s \in Switches : config.on[s] => server.on[s]
  /\ \A c \in Caps : server.cap[c] # NoCap => config.cap[c] \in 0..server.cap[c]
  /\ server.vram_budget # NaN =>
       config.vram_budget = NaN \/ config.vram_budget.of <= server.vram_budget.of
  /\ server.bytes_per_param # NaN =>
       config.bytes_per_param = NaN \/ config.bytes_per_param.of >= server.bytes_per_param.of
  /\ config.infra = server.infra

LEMMA KeptValue ==
  ASSUME NEW S, NEW T, S \subseteq T, NEW base \in T, NEW entry \in Entry(S)
  PROVE  Kept(entry, base) \in T
  BY DEF Entry, Kept

LEMMA MergedIsValid ==
  ASSUME NEW base \in Configs, NEW f \in Entries
  PROVE  /\ DeepMerge(base, f) \in Configs
         /\ \A c \in Caps : base.cap[c] # NoCap => DeepMerge(base, f).cap[c] \in Nat
<1>1. ASSUME NEW s \in Switches PROVE Kept(f.on[s], base.on[s]) \in BOOLEAN
  BY KeptValue DEF Configs, Entries
<1>2. ASSUME NEW c \in Caps PROVE Kept(f.cap[c], base.cap[c]) \in Limits
  <2>1. Nat \subseteq Limits /\ base.cap[c] \in Limits /\ f.cap[c] \in Entry(Nat)
    BY DEF Configs, Entries, Limits
  <2> QED
    BY <2>1, KeptValue
<1>3. ASSUME NEW c \in Caps, base.cap[c] # NoCap PROVE Kept(f.cap[c], base.cap[c]) \in Nat
  <2>1. base.cap[c] \in Nat /\ f.cap[c] \in Entry(Nat)
    BY <1>3 DEF Configs, Entries, Limits
  <2> QED
    BY <2>1, KeptValue
<1>4. /\ Kept(f.vram_budget, base.vram_budget) \in Budgets
      /\ Kept(f.bytes_per_param, base.bytes_per_param) \in Rates
      /\ Kept(f.infra, base.infra) \in Endpoints /\ Kept(f.rest, base.rest) \in Choices
  <2>1. /\ f.vram_budget \in Entry(Budgets) /\ base.vram_budget \in Budgets
        /\ f.bytes_per_param \in Entry(Rates) /\ base.bytes_per_param \in Rates
        /\ f.infra \in Entry(Endpoints) /\ base.infra \in Endpoints
        /\ f.rest \in Entry(Choices) /\ base.rest \in Choices
    BY DEF Configs, Entries
  <2> QED
    BY <2>1, KeptValue
<1> QED
  BY <1>1, <1>2, <1>3, <1>4 DEF Configs, DeepMerge

\* The least and the greatest of two floats are floats, and on the right side of the
\* second, unless one of them is NaN.
LEMMA FloatBounds ==
  ASSUME NEW S, S \subseteq Int, NEW a \in Floats(S), NEW b \in Floats(S)
  PROVE  /\ MinFloat(a, b) \in Floats(S) /\ MaxFloat(a, b) \in Floats(S)
         /\ b # NaN => MinFloat(a, b) = NaN \/ MinFloat(a, b).of <= b.of
         /\ b # NaN => MaxFloat(a, b) = NaN \/ MaxFloat(a, b).of >= b.of
<1>1. \A x \in Floats(S) : x = NaN \/ (x.kind = "number" /\ x.of \in Int)
  BY DEF Floats
<1>2. NaN.kind # "number"
  BY DEF NaN
<1> QED
  BY <1>1, <1>2 DEF MinFloat, MaxFloat, Below

\* Whatever a repository's file holds, its reviews run what the server lets them run, with
\* no more chunks and memory than the server grants, against the server's own services:
\* a null, which would lift a cap, is not taken over (_deep_merge, _enforce_limits).
THEOREM RepoCannotEscalate ==
  ASSUME NEW server \in Configs, NEW file \in Files
  PROVE  ForRepo(server, file) \in Configs /\ Within(ForRepo(server, file), server)
<1>1. server \in Configs /\ Within(server, server)
  <2>1. \A b \in Budgets \cup Rates : b # NaN => b.of \in Int
    BY DEF Budgets, Rates, Floats
  <2> QED
    BY <2>1 DEF Within, Configs, Limits, NoCap
<1>2. CASE file.kind = "none" \/ HasBad(file.entries)
  BY <1>1, <1>2 DEF ForRepo
<1>3. CASE ~(file.kind = "none" \/ HasBad(file.entries))
  <2>1. file.entries \in Entries
    BY <1>3 DEF Files
  <2>2. PICK merged \in Configs : /\ merged = DeepMerge(server, file.entries)
                                  /\ \A c \in Caps : server.cap[c] # NoCap => merged.cap[c] \in Nat
    BY <2>1, MergedIsValid
  <2>3. PICK e : e = EnforceLimits(merged, server)
    OBVIOUS
  <2>4. /\ e.on = [s \in Switches |-> merged.on[s] /\ server.on[s]]
        /\ e.cap = [c \in Caps |->
                      IF merged.cap[c] # NoCap /\ server.cap[c] # NoCap
                      THEN Least(merged.cap[c], server.cap[c]) ELSE merged.cap[c]]
        /\ e.vram_budget = MinFloat(merged.vram_budget, server.vram_budget)
        /\ e.bytes_per_param = MaxFloat(merged.bytes_per_param, server.bytes_per_param)
        /\ e.infra = server.infra /\ e.rest = merged.rest
        /\ e = [on |-> e.on, cap |-> e.cap, vram_budget |-> e.vram_budget,
                bytes_per_param |-> e.bytes_per_param, infra |-> e.infra, rest |-> e.rest]
    BY <2>2, <2>3 DEF EnforceLimits, Configs
  <2>5. ASSUME NEW c \in Caps
        PROVE  e.cap[c] \in Limits /\ (server.cap[c] # NoCap => e.cap[c] \in 0..server.cap[c])
    <3>1. merged.cap[c] \in Limits /\ server.cap[c] \in Limits
          /\ (server.cap[c] # NoCap => merged.cap[c] \in Nat)
      BY <2>2 DEF Configs
    <3>2. e.cap[c] = IF merged.cap[c] # NoCap /\ server.cap[c] # NoCap
                     THEN Least(merged.cap[c], server.cap[c]) ELSE merged.cap[c]
      BY <2>4
    <3> QED
      BY <3>1, <3>2 DEF Limits, NoCap, Least
  <2>6. \A s \in Switches : e.on[s] \in BOOLEAN /\ (e.on[s] => server.on[s])
    BY <2>4
  <2>7. /\ e.vram_budget \in Budgets /\ e.bytes_per_param \in Rates
        /\ e.infra = server.infra /\ e.infra \in Endpoints /\ e.rest \in Choices
        /\ server.vram_budget # NaN =>
             e.vram_budget = NaN \/ e.vram_budget.of <= server.vram_budget.of
        /\ server.bytes_per_param # NaN =>
             e.bytes_per_param = NaN \/ e.bytes_per_param.of >= server.bytes_per_param.of
    <3>1. /\ merged.vram_budget \in Floats(Int) /\ server.vram_budget \in Floats(Int)
          /\ merged.bytes_per_param \in Floats(Nat \ {0})
          /\ server.bytes_per_param \in Floats(Nat \ {0})
      BY <2>2 DEF Configs, Budgets, Rates
    <3>2. Nat \ {0} \subseteq Int /\ Int \subseteq Int
      OBVIOUS
    <3>3. e.infra = server.infra /\ server.infra \in Endpoints /\ e.rest \in Choices
      BY <2>2, <2>4 DEF Configs
    <3> QED
      BY <2>4, <3>1, <3>2, <3>3, FloatBounds DEF Budgets, Rates
  <2>8. e.on \in [Switches -> BOOLEAN] /\ e.cap \in [Caps -> Limits]
    BY <2>4, <2>5, <2>6
  <2>9. e \in Configs
    BY <2>4, <2>7, <2>8 DEF Configs
  <2>10. Within(e, server)
    BY <2>5, <2>6, <2>7 DEF Within
  <2> QED
    BY <1>3, <2>2, <2>3, <2>9, <2>10 DEF ForRepo
<1> QED
  BY <1>2, <1>3

\* A limit set in the server's environment binds every review, whatever the server's file
\* and the repository's file say or fail to say.
THEOREM EnvironmentBinds ==
  ASSUME NEW defaults \in Configs, NEW own \in Files, NEW env \in [Caps -> Limits],
         NEW repo \in Files, NEW c \in Caps, env[c] # NoCap
  PROVE  ForRepo(ServerConfig(defaults, own, env), repo).cap[c] \in 0..env[c]
<1>1. LoadFile(defaults, own) \in Configs
  <2>1. own.kind # "none" => own.entries \in Entries
    BY DEF Files
  <2> QED
    BY <2>1, MergedIsValid DEF LoadFile
<1>2. PICK server : server = ServerConfig(defaults, own, env)
  OBVIOUS
<1>3. server \in Configs /\ server.cap[c] = env[c]
  BY <1>1, <1>2 DEF ServerConfig, Configs
<1> QED
  BY <1>2, <1>3, RepoCannotEscalate DEF Within
=============================================================================
