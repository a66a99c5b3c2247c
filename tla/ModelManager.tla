------------------------------ MODULE ModelManager ------------------------------
(***************************************************************************)
(* Choosing a language model for a review and making room for it in LM     *)
(* Studio (model_manager.py, lm_studio_client.py).  The server's models    *)
(* are listed once; then models are unloaded, one call after the other,    *)
(* until the chosen one fits into the VRAM budget, and it is loaded.       *)
(* Other users of the server load and unload in between, and the review,   *)
(* and with it the call it is in, may be cancelled.                        *)
(*                                                                         *)
(* A model without an instance is listed under its key, a loaded one under *)
(* the names of its instances.  The key is also the name of an instance.   *)
(***************************************************************************)
EXTENDS Integers, FiniteSets

CONSTANTS Names,          \* the names of instances, keys of models among them
          keyOf,          \* the key of the model that an instance is of
          maxContext,     \* the context length of a model that is not loaded ...
          context,        \* ... and the one an instance is loaded with
          size_bytes, params, bytes_per_param,   \* a model's size; 0 if unknown
          vram_budget,
          Prompts,        \* the estimated tokens of the reviews
          MaxReviews, MaxOthers,   \* bounds: calls, and steps of other users
          NoName

Keys == {keyOf[n] : n \in Names}

ASSUME NamesAssumption ==
  /\ keyOf \in [Names -> Names] /\ \A k \in Keys : keyOf[k] = k
  /\ maxContext \in [Names -> Nat] /\ context \in [Names -> Nat]
  /\ NoName \notin Names /\ IsFiniteSet(Names)
ASSUME SizesAssumption ==
  /\ size_bytes \in [Names -> Nat] /\ params \in [Names -> Nat]
  /\ bytes_per_param \in Nat \ {0} /\ vram_budget \in Nat
ASSUME ReviewsAssumption == Prompts \subseteq Nat /\ MaxReviews \in Nat /\ MaxOthers \in Nat

VARIABLES
  loaded,      \* LM Studio: the instances in VRAM
  place,       \* the await get_model_for_task is in, or how it ended
  tokens, configured,   \* its arguments
  listed,      \* the instances that the server listed
  chosen,      \* the model selected
  to_unload,   \* the instances that may still be unloaded
  freed,
  reviews, others,   \* how many calls, and steps of others, there have been
  disturbed,   \* history: others have stepped in since the models were listed
  broken       \* history: a request has failed, or the review was cancelled

modelVars == <<loaded, place, tokens, configured, listed, chosen, to_unload, freed,
               reviews, others, disturbed, broken>>

ModelInit ==
  /\ loaded = {} /\ place = "idle" /\ tokens = 0 /\ configured = NoName
  /\ listed = {} /\ chosen = NoName /\ to_unload = {} /\ freed = 0
  /\ reviews = 0 /\ others = 0 /\ disturbed = FALSE /\ broken = FALSE

-----------------------------------------------------------------------------
\* list_models: an entry for each instance, and one for each model without any.
Entries(instances) ==
  instances \cup {k \in Keys : \A n \in instances : keyOf[n] # k}

ContextOf(n, instances) == IF n \in instances THEN context[n] ELSE maxContext[n]

\* A model of unknown size is taken to fill the budget.
_model_vram(n) ==
  LET k == keyOf[n] IN
  IF size_bytes[k] > 0 THEN size_bytes[k]
  ELSE IF params[k] > 0 THEN params[k] * bytes_per_param ELSE vram_budget

\* The bytes that instances take up, and their number: the sum of the sizes.
Held(instances) == UNION {{n} \X (1.._model_vram(n)) : n \in instances}

Vram(instances) == Cardinality(Held(instances))

\* Faulty variant: the selected model itself is left out of the sum.
OverBudgetWithout(n, instances, gone) == Vram(instances) - gone > vram_budget

\* Whether model n does not fit beside the listed instances, of which an amount
\* `gone` has been freed.
OverBudget(n, instances, gone) == Vram(instances) - gone + _model_vram(n) > vram_budget

\* The entries of models whose context is long enough.
Sufficient(instances) == {n \in Entries(instances) : ContextOf(n, instances) >= tokens}

\* _select_model: the configured model if it will do, else one with the smallest
\* context that will; the first of them in the server's order.
Selectable(instances) ==
  LET fit == Sufficient(instances) IN
  IF configured \in fit THEN {configured}
  ELSE {n \in fit : \A m \in fit : ContextOf(n, instances) <= ContextOf(m, instances)}

-----------------------------------------------------------------------------
GetModelForTask ==
  /\ place \in {"idle", "returned", "raised"}
  /\ reviews < MaxReviews /\ reviews' = reviews + 1
  /\ tokens' \in Prompts /\ configured' \in Names \cup {NoName}
  /\ place' = "list"
  /\ listed' = {} /\ chosen' = NoName /\ to_unload' = {} /\ freed' = 0
  /\ broken' = FALSE
  /\ UNCHANGED <<loaded, others, disturbed>>

\* Faulty variant: the check of the model against the whole budget is left out.
TooLargeNever(n) == FALSE

\* The model would not fit into an empty VRAM.
TooLarge(n) == _model_vram(n) > vram_budget

\* The call that follows: unload, load, or none when nothing is left to unload.
Following(n, instances, gone, rest) ==
  IF ~OverBudget(n, instances, gone) THEN "load"
  ELSE IF rest = {} THEN "raised" ELSE "unload"

\* The server's list arrives.
Listed ==
  /\ place = "list"
  /\ listed' = loaded /\ disturbed' = FALSE
  /\ \/ Sufficient(loaded) = {} /\ place' = "raised" /\ UNCHANGED <<chosen, to_unload>>
     \/ \E n \in Selectable(loaded) :
          /\ chosen' = n
          /\ \/ n \in loaded /\ place' = "returned" /\ UNCHANGED to_unload
             \/ n \notin loaded /\ TooLarge(n) /\ place' = "raised" /\ UNCHANGED to_unload
             \/ /\ n \notin loaded /\ ~TooLarge(n)
                /\ to_unload' = loaded
                /\ place' = Following(n, loaded, 0, loaded)
  /\ UNCHANGED <<loaded, tokens, configured, freed, reviews, others, broken>>

\* Faulty variant: the amount freed is not summed up.
FreedByLast(n) == freed' = _model_vram(n)

Freed(n) == freed' = freed + _model_vram(n)

\* unload_model of the largest instance left, which is not there any more if
\* somebody else has unloaded it.  An instance without an id would end the call
\* here, but _parse_model gives every loaded model one.
Unload(n) ==
  /\ place = "unload"
  /\ n \in to_unload /\ \A m \in to_unload : _model_vram(m) <= _model_vram(n)
  /\ IF n \in loaded
     THEN /\ loaded' = loaded \ {n}
          /\ Freed(n)
          /\ to_unload' = to_unload \ {n}
          /\ place' = Following(chosen, listed, freed', to_unload')
     ELSE /\ place' = "raised"
          /\ UNCHANGED <<loaded, freed, to_unload>>
  /\ UNCHANGED <<tokens, configured, listed, chosen, reviews, others, disturbed, broken>>

\* load_model; the server names the instance by the model's key, unless there is
\* one of that name already.
Load ==
  /\ place = "load"
  /\ loaded' = loaded \cup {chosen}
  /\ place' = "returned"
  /\ UNCHANGED <<tokens, configured, listed, chosen, to_unload, freed, reviews, others,
                 disturbed, broken>>

\* A request fails or times out, or the review is cancelled during it; the server
\* may have done what it was asked for.  A load or unload that it only carries out
\* later is from then on a step like another user's.
RequestFails ==
  /\ place \in {"list", "unload", "load"}
  /\ place' = "raised" /\ broken' = TRUE
  /\ \/ UNCHANGED loaded
     \/ place = "load" /\ loaded' = loaded \cup {chosen}
     \/ /\ place = "unload"
        /\ \E n \in to_unload : (\A m \in to_unload : _model_vram(m) <= _model_vram(n))
                                 /\ loaded' = loaded \ {n}
  /\ UNCHANGED <<tokens, configured, listed, chosen, to_unload, freed, reviews, others,
                 disturbed>>

\* Another user of the server loads or unloads, or the server carries out a request
\* that LMStudioClient no longer waits for.
OtherUser ==
  /\ others < MaxOthers /\ others' = others + 1
  /\ \E n \in Names : loaded' = loaded \cup {n} \/ loaded' = loaded \ {n}
  /\ disturbed' = TRUE
  /\ UNCHANGED <<place, tokens, configured, listed, chosen, to_unload, freed, reviews, broken>>

ModelNext ==
  \/ GetModelForTask \/ Listed \/ (\E n \in Names : Unload(n)) \/ Load \/ RequestFails
  \/ OtherUser

ModelSpec == ModelInit /\ [][ModelNext]_modelVars

-----------------------------------------------------------------------------
(* Properties.                                                             *)

ModelTypeOK ==
  /\ place \in {"idle", "list", "unload", "load", "returned", "raised"}
  /\ loaded \subseteq Names /\ listed \subseteq Names /\ to_unload \subseteq Names
  /\ chosen \in Names \cup {NoName} /\ configured \in Names \cup {NoName}
  /\ tokens \in Nat /\ freed \in Nat
  /\ reviews \in 0..MaxReviews /\ others \in 0..MaxOthers
  /\ disturbed \in BOOLEAN /\ broken \in BOOLEAN

\* A model that had to be loaded is in VRAM beside what was left there, within the
\* budget, even if the budget was exceeded before: unless others stepped in since
\* the list was read, whatever half-done calls and cancellations came before.
BudgetHolds ==
  place = "returned" /\ ~disturbed =>
    chosen \in loaded /\ (chosen \notin listed => Vram(loaded) <= vram_budget)

\* Undisturbed, with no failing request, the call gives up only when no model has
\* the context or the selected one exceeds the whole budget, and then before it
\* has unloaded anything: room is always found for a model that fits at all.
RaisesForCause ==
  place = "raised" /\ ~disturbed /\ ~broken =>
    /\ chosen = NoName \/ _model_vram(chosen) > vram_budget
    /\ loaded = listed
=============================================================================
