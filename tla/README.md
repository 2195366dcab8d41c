# Verification of the modal logic formula prover

TLA+ specifications of the prover of `formula_lib/` and `parser_lib/`, of the task
service of `rest_server/` and of the page of `simple_client/`, model-checked with TLC on
small instances and, for the search, the three model classes, the formula manager with its
refiners, the service and the page, proved with TLAPS for all instances. Every definition is translated from the code; `PROJECT.json` gives the
lines (`"map"`).

- [1. The system](#1-the-system)
- [2. The modules](#2-the-modules)
- [3. The runs](#3-the-runs)
- [4. The proofs](#4-the-proofs)
- [5. Where code and documentation disagree](#5-where-code-and-documentation-disagree)
- [6. What is not modelled, and the plan](#6-what-is-not-modelled-and-the-plan)

## 1. The system

A formula of the logic of contact and measure (`C(a,b)`, `a=0`, `<=m(a,b)`,
`~ & | -> <->`, Boolean terms over variables) is parsed, simplified and tested
for satisfiability. A semantic tableau splits the formula; at the end of an open
path a *model class* looks for a structure that agrees with the atoms on it.
The library is called by a WebAssembly build inside the browser, and by an HTTP
server that runs each formula as a task on a thread pool.

| component | state | operations | made correct by |
|---|---|---|---|
| tableau (`formula_lib/private/tableau.*`) | eight hash sets of T and F formulas, the multiset `contact_T_terms_`, the call stack, the caller's model | `is_satisfiable`, `satisfiable_step`, `has_satisfiable_model`, `clear` | answers are right in every order; backtracking restores the sets; the model satisfies the formula; it ends |
| formulas, terms (`formula.*`, `term.*`) | immutable trees with hashes and variable masks | `build`, `evaluate`, `operator==`, `has_same_...` | evaluation agrees with the semantics |
| evaluation blocks, points, contacts (`variables_evaluations_block*`, `utils.*`) | masks, vectors of bitsets | enumerate evaluations, build points, contact matrix | each evaluation once; exactly the admissible points |
| model classes (`model`, `connected_model`, `measured_model`, `basic_bruteforce_model`) | points, evaluations, contacts, inequalities | `create`, `clear`, getters | `create` succeeds exactly if a structure of the class exists, and returns one |
| formula manager (`formula_mgr`) | the AST while it is refined, the formula, the tableau, variable names | `build`, `is_satisfiable`, `is_model_satisfiable` | what is proved is what was written; a returned model is a model |
| refiners (`parser_lib/visitor.cpp`) | none: they rewrite an AST in place | eight visitors, in an order with assumptions on each other | each keeps the meaning; together they leave what `build` understands |
| inequalities (`linear_algebra/`) | constraints handed to a vendored simplex solver | `add_constraint`, `is_solvable`, `get_variables_values` | a solution is a measure |
| parser, string memory manager (`parser_lib/`) | registries of nodes and strings, AST | `parse_from_input_string` | nodes are freed once |
| task service (`rest_server/microservice_controller.*`) | `op_id_to_task_info_` under a mutex, atomic `running_tasks`, cancellation tokens, the lambda's locals | POST `/task`, `/ping`, `/cancel`, the worker lambda, `remove_non_active` | see section 2.4 |
| termination callback, loggers | thread-local functions | set, call | they outlive nothing they refer to |
| client (`simple_client/`) | timers, buttons, the `valid_op_id` that all timers share | post, poll each second, show | the answer shown is the one of the last task; no timer asks for ever |

How they interact: the listener's pool threads run the handlers and the worker
lambdas; the main thread sweeps every ten seconds. A worker calls the parser,
`formula_mgr` and through it the tableau, which calls a model class. The library
calls back: every `TERMINATE_IF_NEEDED` and every log line runs code of the
worker lambda, which looks at the cancellation token, moves output into the
shared table under the mutex, or finds that the task has been erased; the
exception thrown then unwinds the tableau. The browser polls.

What is hard: the tableau modifies one state destructively along a recursion and
can be left by an exception at any depth; the server has handlers, workers and
the sweep over one table with many short critical sections, a counter looked up
long before it is raised, identifiers instead of ownership, and three ways for a
task to end while a client polls, cancels or goes away. `PROJECT.json` lists the
hazards by line, with the property that covers each one or what is still missing.

## 2. The modules

```
Formulas <- Tableau <- TableauProofs          RestServer --refines--> TaskLifecycle
   ^          ^                                ^      ^                    ^
SampleFormulas <- MCTableau           MCRestServer  RestServerProofs      | composed with
                                                                        Client <- ClientProofs
Refiners <- Visitors <- FormulaMgr <- MCFormulaMgr                         ^
                             ^                                          MCClient
                        FormulaMgrProofs -- instantiates --> Formulas
                 ModelCreation
        refines ^             ^ refines
          FastModel        MeasuredModel       ConnectedModel
               ^  ^            ^  ^                ^  ^
               |  MCFastModel  |  MCMeasuredModel  |  MCConnectedModel
               |       ^       |       ^           |       ^
             Points    |     Points  SampleMeasures Points  |
                  SampleRequests                      SampleRequests

          FastModelProofs  MeasuredModelProofs  ConnectedModelProofs
                     v         v        v        v
                     PointsProofs        PointsProofs
```

Each proof module extends the module it is named for; `PointsProofs` is about `Points`,
and the model classes use its lemmas.

The modules meet at promises. `Tableau` takes `imodel::create` by the promise that `FastModel`
and `MeasuredModel` implement (`ModelCreation`), `FormulaMgr` takes the tableau by what `Tableau`
shows of it, `Client` takes the server by what `RestServer` implements (`TaskLifecycle`).

### 2.1 The search

**Formulas** declares what the prover works on: nodes, their operations and
children, and `Theory[M]`, the formulas that hold in structure `M`. A node is a
value: two nodes that `operator==` identifies are one element of `Formula`.
Children are functions, not a data type, so that the proofs hold for any set of
formulas. Its assumptions are the syntax (`SyntaxAssumption`), a structure exists
(`NonemptyAssumption`), classical connectives (`SemanticsAssumption`) and
*C(a,b) implies a # 0 and b # 0* (`ContactRuleAssumption`, the rule
`has_broken_contact_rule` applies). TLC evaluates all of them on the sample
formulas, whose structures are real point sets with contacts and measures.

**Tableau** is `tableau.cpp`. The C++ recursion becomes `stack`, one `Frame` for
each active `satisfiable_step` holding what its destructors and its last lines
need: the formula taken out, the set it came from, the children added and which
child is being tried. `path[s]` is the union of the four hash sets signed `s`
(the code keeps them apart by operation, which `Op` tells), `contact_T_terms` the
multiset of term pointers.

| action | code |
|---|---|
| `Start` | `is_satisfiable` up to the first step: `clear`, a constant answered at once |
| `Expand` (`Negation`, `BothChildren`, `EitherChild`) | one `satisfiable_step` from its entry to its first `return false` or recursive call, for a T or an F formula |
| `HasSatisfiableModel` | no formula left: `imodel::create` |
| `Return` | a recursive call returns: remove what was added, put the formula back, or try the right child |
| `Finish` | back in `is_satisfiable`; the model is cleared if there is none |
| `Terminate` | `TERMINATE_IF_NEEDED` throws, at a step or inside `create` |

The `T` rules for `&`, `|`, `~` and the `F` rules for `|`, `&`, `~` are mirror
images in the code, line by line; `Both(s)`, `Either(s)`, `Granted(s)` and
`Refuted(s)` say which operation and which constant they are about. `begin()` of
a hash set is an arbitrary member. A call that failed or was terminated may be
followed by another `Start`: the code calls `is_satisfiable` on the same object.
`imodel::create` is taken by what it promises (a structure that agrees with the
path, or none); section 2.2 is about what the model classes do.

### 2.2 The model classes

A *request* is what `has_satisfiable_model` hands to `create`: the atoms of the
path by kind and sign, and the variables used in them. A point is an evaluation,
the set of the variables that are true. A term is a Boolean function, the set
of the evaluations that make it true: the code evaluates a term point by point,
so how the term is written does not matter, with one exception that the
model keeps: over a *model*, a complement is taken over all its points, whatever the
variables' evaluations have been restricted to (`Evaluate` asks what each of
the `n` points evaluates to by `v`).

**Points** has what the classes share: the binary counter that enumerates
evaluations (`IsLast`, `NextEvaluation`), the tests a point has to pass, evaluation of
terms and atoms over a model, and the reference: `Structures`, `Satisfies`, `Solutions`,
`IsConnected`. Only one point for each evaluation is needed there: two points with the same
evaluation can be merged.

**ModelCreation** is the promise of `imodel::create`: a solution of the request
or, if it has none, *none*. Calls follow each other on the same object.

**FastModel** is `model.cpp`. Contacts and terms are taken in any order (they come
out of hash sets); one action tests one evaluation.

| action | code |
|---|---|
| `Start` | `create` up to the first atom: `clear`, the matrix |
| `TakeContact`, `TestLeft`, `TestRight`, `LeaveLeft` | `construct_contact_points` and the enumerations nested in it |
| `TakeZeroTerm`, `TakeNoTerm`, `TestPoint` | `construct_non_zero_model_points`, `construct_point` |
| `Complete` | the rest of `create` |
| `Terminate` | `TERMINATE_IF_NEEDED` throws; the half-built model stays until the next call |

**ConnectedModel** is `connected_model.cpp` (with `construct_all_valid_points`).

| action | code |
|---|---|
| `Start` | `clear`, the limit on variables |
| `TestEvaluation` | one evaluation of `construct_all_valid_points` |
| `CheckExistence`, `BuildContacts` | the checks on non-zero terms and contacts, the matrix |
| `NextRoot`, `Visit`, `AddComponent` | `get_connected_components`; the queue is the set of the points in it |
| `TryComponent`, `NoComponentLeft` | the loop over the components, with the reduction or the rollback |
| `Terminate` | each of the five polls |

It does not refine `ModelCreation`, because a model it returns may be wrong (section 5).
What it does promise is split up: a model returned is a connected structure that keeps the
negative atoms, and the positive ones too if no term of them holds where all variables
are false (`ModelIsConnected`; such a term gets no points from the complement); and
no connected solution is missed (`AnswerIsComplete`).

**MeasuredModel** is `measured_model.cpp` with `linear_algebra/`. `generate_model` is
recursive; `stack` has the calls that wait for the one about a smaller subset.

| action | code |
|---|---|
| `Start`, `ConstructPoints` | `create` up to the first call of `generate_model`: `clear`, the limits, all valid points, the matrix, the cached term evaluations |
| `GenerateModel` (`AlreadyProcessed`, `NewSubset`, `TrySmaller`, `SaveAsModel`) | one call up to its first recursive call or its `return` |
| `Return`, `Finish` | a recursive call returns: the next point is taken out, or the caller returns too |
| `LookUpFails` | a term is looked up that was not cached (a formula without variables): the process ends |
| `Terminate` | `TERMINATE_IF_NEEDED` throws out of all the calls |

`HasVariables` tells the two cases of `ContactMatrix` apart: how many points there are is taken from
the evaluation of a variable, so that a formula without variables gets a matrix without rows
(`utils.cpp:110-113`). `Structure` has no contacts then, and `Found`, what `create` finds of the
solutions, says so.

A measure gives a point a positive weight. The solver is taken by its answers: it finds weights
if there are some. With `ExactArithmetic = FALSE` it may also accept a row that is
missed by one unit, because the bound for a weight and the tolerance of the solver
are the same number (section 5). Solutions are sought among weights up to `MaxWeight`.

### 2.3 From the text to the tableau

**Refiners** has the ASTs and, for each visitor that rewrites them, what it makes of one node. A
node is its operation followed by its children, a variable is followed by its name; formulas and
terms share their constants. `Trees[d]` are the ASTs of depth up to `d`; there is no bound on `d`.

**Visitors** is `accept`: `Visit(v, n)` goes through the AST `n` with the visitor `v`, children
first (`At`), or the node first for the visitor that splits `C` and `<=` and then visits what it has
made (`Before`). The same walk collects the variables (`VariablesOf`), evaluates the formula
in a structure as the code does (`EvaluateInternal`), and says which structures it holds in
(`Meaning`). Structures are constants: `Empty`, `InContact` and `LessEq` name those that make an
atomic formula true, and `StructureAssumption` says what is true of all of them, that there is a
point and that contact is reflexive, symmetric and distributes over unions; `ModelAssumption` says
that there is a structure. `Identity(n)` is what `operator==` compares of a built node: the
order of the sides of a contact is left out.

**FormulaMgr** is `formula_mgr.cpp`: `Build` (the parser's result,
which may be *none*), `Refine` (one visitor, in the order of `Stages`, those whose flag
is not set left out), `BuildFormula` (`formula::build`, which has no case for some
operations), `IsSatisfiable`.

### 2.4 The task service

**RestServer** has one action per critical section or atomic access, for each
request and for the main thread.

| state | code |
|---|---|
| `handler`, `op_id` | how far `handle_task` has come with the request, and its identifier |
| `worker`, `canceled`, `is_task_info_removed`, `info_output` | the lambda, its token and its locals |
| `op_id_to_task_info` | the table: status, result, output, `is_active`; `late` abstracts `start` and the clock |
| `running_tasks` | the counter |
| `answer`, `delivered`, `cancel_true`, `logged` | history: what clients have been told, and what was logged |

| action | code |
|---|---|
| `CheckLimit`, `Register`, `Reject`, `Accept` | `handle_task` |
| `SkipWorker`, `StartWorker` | the continuation on the body: skipped, or started, or thrown out of by `uri::decode` |
| `Log`, `Poll` | the callbacks the prover makes, each with `stream_accumulated_output` |
| `PublishResult`, `ReportTermination`, `Fail`, `Leave` | the ends of the lambda |
| `Ping`, `Cancel` | `handle_ping`, `handle_cancel` |
| `LimitPasses`, `Sweep` | time, and `remove_non_active` |

Log lines are numbers; the output of a task is a sequence of them, so that a
lost, repeated or reordered line shows. The prover is whatever logs, polls and
ends, or does not end. A client may ping and cancel whenever it knows its
identifier.

**TaskLifecycle** is what the server promises, without threads or a table:
a task is opened, may be canceled, may finish (also after the cancel: a result
that is ready counts), is reported by pings, once when final, and is forgotten
for good. `RestServer` implements it (`ImplementsLifecycle`): status is the
entry's status, or *unknown* before and *forgotten* after it.

### 2.5 The page

**Client** is the script of `simple_client/index.html`, with the requests it sends (`server_api.js`).
The server in it is `TaskLifecycle`, whose actions are conjuncts of the page's
(`Server!Open` in `TakePost`, `Server!Report` in `AnswerPing`).

| action | code |
|---|---|
| `CreateTask` | a click: `create_task` up to the POST, the buttons are closed |
| `TakePost`, `RefusePost`, `PostDone`, `PostFailed` | the POST on the server, and its promise |
| `Tick` | a timer calls `ping_task`, whatever has become of earlier pings |
| `AnswerPing`, `RefusePing`, `PingDone`, `Unreadable` | the ping on the server, its promise, and an answer that does not parse (a formula with an apostrophe) |
| `Reload` | the page is loaded again |
| `ServerStep` | a worker finishes; the server forgets tasks, or restarts |

Requests and answers take as long as they like, overtake each other and get lost. All timers
share `valid_op_id`, so the interesting histories are those with two pings under way:
the history variable `overlapped` marks them, and the two invariants say what the page
keeps as long as there are none. No task is canceled by the page: the button is commented out.

### 2.6 Conventions

A definition called `Mutant...` is a plausible slip in the definition after it.
No specification uses one; replacing the definition by it makes TLC refute the
property that `PROJECT.json` pairs it with, so no property holds by accident.

## 3. The runs

| run | bounds | checks |
|---|---|---|
| `tableau` | 2101 formulas (2425 with their subformulas) over two variables, nested up to five levels; the structures over up to 4 points with weights 1..2, which differ in 7 ways on the atoms | `TypeOK`, `PathIsConsistent`, `ContactTermsMatchContacts`, `AnswerIsCorrect`, `ModelSatisfiesFormula`, `CallsRestoreThePath`, `EveryCallEnds` |
| `fast_model` | 3 variables, 2 of them used; 500 open paths with up to 2 contacts, 2 non-contacts, 1 zero and 1 non-zero term over the terms `a`, `-a`, `b`, `-a*b`, and one without these atoms | `TypeOK`, `NegativeAtomsAreKept`, `ImplementsCreation`, `CreateEnds` |
| `connected_model` | the same variables and a limit of 2; 957 open paths with up to 2 non-contacts that tear the points into up to 4 components, 1 contact, 1 zero and 2 non-zero terms; one over 3 variables and one over none | `TypeOK`, `PointsAreAllValid`, `ComponentsAreSeparate`, `ModelIsConnected`, `AnswerIsComplete` |
| `connected_sound` | the same | the claim that an accepted component is a model, refuted (section 5) |
| `measured_model` | 4 variables, 2 of them used, limits of 4 variables and 4 points; all open paths with up to three atoms out of 2 contacts, 2 non-zero terms, 1 zero term and 4 measures of either sign; three without variables (`~C(0,1)`, which one point satisfies, `~C(1,1)`, which none does, and `<=m(1,0)`, where a look-up fails), and one over each limit; weights 1..4 | `TypeOK`, `NoModelIsPassedOver`, `MeasuredValuesFitTheModel`, `ImplementsCreation`, `CreateEnds` |
| `measured_solver` | one path with three measures, a solver with its tolerance | the claim that a solution is a measure, refuted (section 5) |
| `formula_mgr` | 492 texts over two variables, and one that does not parse, with all flags, none, and all but one; structures with 1 or 2 points | `TypeOK`, `MeaningIsKept`, `EveryTextIsBuilt`, `FlagsAreObeyed`, `EvaluationIsExact`, `AnswerIsAboutTheText` |
| `formula_assert` | one text, `<=m(a,b) \| ~C(a,b)` | an assertion of `formula_mgr.cpp`, refuted (section 5) |
| `server` | 2 requests, 2 identifiers, limit 1, up to 2 log lines a task | `TypeOK`, `CountIsExact`, `FinishedIsOwnResult`, `CancelIsKept`, `EndIsReported`, `LogIsComplete`, `ImplementsLifecycle` |
| `server_live` | the same without log lines | `StopsWhenAbandoned`, `EntriesLeave` |
| `server_limit` | the same | the documented limit, refuted (section 5) |
| `client` | 2 tasks, 2 pings under way at a time | `TypeOK`, `ButtonsFollowTheTask`, `ShownIsOfLastTask`, `TimersEnd` |

Why the bounds are enough. *Formulas*: the roots are all literals, all
conjunctions and disjunctions of two literals (with constants, `C(a,a)` and the
contact rule in both directions), deeper combinations in which both rules nest and
subformulas are shared, and the negations of all these, so that every rule is
applied with both signs, with a child that is a constant, closed, already
present or new, and to the left and to the right. Sharing matters most: it
is what `Addition` has to get right. *Structures*: a point is a set of variables,
so two variables have at most four points, and all contact relations and weights
1..2 on them are enumerated. *Paths*: the model classes only ask which of the four evaluations of
two variables are in which term, and the terms chosen put one, two or
none of these in each; the reference enumerates all 112 structures over them. The unused
variable with the id in between shows that the enumeration passes over it. Each call is
followed by every other one on the object it has left behind. *Measures*: the recursion takes
points out of four, so that every subset is reached along several orders, which is what
`processed_combinations_` is about; weights up to 4 solve whatever the systems of these paths
allow (with weights up to 7 the same ones are solvable). *Texts*: every contact, inclusion and
equation over terms with constants, unions, double complements and equal sides; every
combination of two of seven formulas under each connective; and combinations nested
under an implication and a negation, so that each refiner meets what the others
leave. That one flag at a time is missing shows which refiner relies on another. *Requests*: a task meets another one only through
the counter, the table and the identifiers; two requests with one slot give the
races for each of these. Two log lines are the fewest that can be reordered or
split between stream, entry and client. *Pages*: what goes wrong needs a second
task that shares `valid_op_id` with the first, and a second ping that overtakes
another. Requests and identifiers are symmetric
in the safety runs; the liveness run uses no symmetry.

Deadlock is checked in all runs but `client`: `Sweep` runs for ever, `create`,
`build` and `is_satisfiable` may always be called again. The page stops
when its buttons have been clicked `MaxTasks` times.

**Fairness.** `Tableau!FairSpec`: the thread that has called `is_satisfiable`
keeps running; no further call and no termination is owed. `EveryCallEnds` then
is the termination of the search. `FastModel!FairSpec` and `MeasuredModel!FairSpec` say the same of the thread in `create`. `RestServer!FairSpec`: the main loop
(`source.cpp:105`) sweeps for ever; the clock passes the limit of each entry; a
running worker polls again and again with a second between some of the polls
(the library polls in its loops), and once its `try` block is left it reaches its
end. Nothing is assumed of clients or of the prover's answer, which may
take longer than anyone waits. `StopsWhenAbandoned` says such a worker ends;
`EntriesLeave` that no entry stays, with the one exception the code has: a
client that cancels for ever keeps its entry active.

`Client!FairSpec`: intervals fire (strongly fair, because the bound `MaxPings` on pings
under way is the model's and not the page's), requests are answered or fail, promises are
settled, and a task that is asked about again and again is at some time not answered with
`RUNNING`, because the service has a time limit.

`FreshIds = TRUE` (an identifier of ten random characters does not come up
twice) is assumed in all runs of the server. Without it (section 5) an old worker can finish a new task.

## 4. The proofs

### 4.1 The search

`TableauProofs` proves, for every set of formulas, every class of structures
that satisfies the assumptions of `Formulas`, and every order of expansion:

| theorem | states |
|---|---|
| `TypeCorrect` | `Spec => []TypeOK` |
| `Consistency` | `Spec => []PathIsConsistent` |
| `ContactTerms` | `Spec => []ContactTermsMatchContacts` |
| `SoundAndComplete` | `Spec => []AnswerIsCorrect` |
| `ModelCorrect` | `Spec => []ModelSatisfiesFormula` |
| `Restoration` | `Spec => CallsRestoreThePath` |

None of these is inductive. An answer is given after the search has unwound, from
a path that no longer holds what justified it; so the invariant `IInv` says what
the stack remembers. Its parts, besides the type invariant and the two
properties of the answer:

- `SearchInv`, while searching: the path is consistent, `contact_T_terms` is that
  of its contacts, and `StackInv` holds. `StackInv` says of every frame
  (`FrameInv`) that the path of the call below it is its `before` with `f` taken out
  and `added` put in, where nothing in `added` was there already (so unwinding is
  exact); that a structure which agrees with the lower path agrees with the
  upper one; and that the lower path is satisfiable if the upper one is, except that while a
  left child is being tried the right child may be the true one. The lowest path is
  `{root}`, signed T.
- `ReturnInv`, on the way up: the value being returned is true exactly if some
  structure agrees with the path, and if it is true the model in hand does. At an
  empty stack that is `AnswerIsCorrect` and `ModelSatisfiesFormula`.

The argument per rule is in three lemmas. `OpenChild` and `ClosedIsContradictory`:
a child that `Closed` rejects is false in every structure that agrees with the path (here
the contact rule and the constants enter), and one that is not rejected can be
added consistently. `ChildrenSigns`: what a signed formula asks of its children,
by the classical meaning of its operation. Each action has a lemma `...KeepsIInv`; `Return` has one case
for each way a frame can end. Termination (`Terminate`) needs only that the next
`Start` clears everything.

The assumptions used are those of `Formulas` and `RootAssumption`; TLC evaluates
them in the run `tableau`.

### 4.2 The service

`RestServerProofs` is about any number of requests and identifiers, any limit and any
length of the logs. The first two theorems hold for identifiers that repeat, the others
assume `FreshIds`.

| theorem | states |
|---|---|
| `TypeCorrect` | `Spec => []TypeOK` |
| `CountCorrect` | `Spec => []CountIsExact` |
| `FinishedCorrect` | `Spec => []FinishedIsOwnResult` |
| `CancelCorrect` | `Spec => []CancelIsKept` |
| `EndCorrect` | `Spec => []EndIsReported` |
| `LogCorrect` | `Spec => []LogIsComplete` |
| `Implements` | `Spec => ImplementsLifecycle` |

Types and counter are inductive only together: that the counter stays a natural number
when a worker lowers it is because it is the number of lambdas that hold a slot
(`Counted`), and a lambda holds one at most once because it is started after its request
was accepted (`Posted`).

With fresh identifiers, `Own` says whose entry is whose: two requests never have the same
identifier, and the entry of an identifier belongs to the request that got it. All
else is about one request at a time, so `Fates` is a conjunction over the requests of
`FateAt(r)`: how far the handler, the lambda and the entry of `r` may be apart
(`StageAt`), that a lambda which has ended left a final status (`EndAt`), where the log
lines are (`LogAt`), and what the client has been told (`AnswerAt`). A step of one request
leaves the others' variables and entries alone or forgets the entry
(`KeptOrForgotten`), which keeps their fates (`FateKept`); one lemma per action
shows that it keeps its own. `Implements` maps each step to one of `TaskLifecycle`
or to a stutter, from the same invariant.

`ServerAssumption` (finitely many requests, a limit and a log length that are
natural numbers) is evaluated by the runs of the server.

### 4.3 The page

`ClientProofs` proves `TypeCorrect`, `ButtonsCorrect` (`ButtonsFollowTheTask`) and
`ShownCorrect` (`ShownIsOfLastTask`) for any number of tasks and of pings under way. As long
as pings do not overlap, everything under way is about the task posted last (`LastOnly`): at most
one task is waited for or has failed, `valid_op_id` is its own, at most one ping is under way, of
its timer and with its identifier, and an answer that ends the task is the last thing the server has
reported. `Posted` (tasks are posted in the order of their numbers) and `Answered` (a ping
without an identifier is not answered by the server) are needed besides.

### 4.4 The model classes

The proofs are about any variables (a finite set of natural numbers, `VariableAssumption`), any
set of requests over them (`RequestAssumption`) and any limits (`LimitAssumption` of
`ConnectedModel`: its limit is a natural number). The runs `fast_model`, `connected_model` and
`measured_model` evaluate the assumptions.

`PointsProofs` has what the classes share: the enumeration follows a strict order of the
evaluations (`Less`: the smallest variable in which two evaluations differ decides), so that the
evaluations before the next one are the current one and those before it (`BeforeNext`), and all are
before or equal to the last (`LastIsLast`); evaluating a term over points is asking each point
(`EvaluateIsPointwise`); points that are valid one by one, in permitted contacts, break no negative
atom (`NegativeAtomsAreLocal`); and a model with distinct points is a structure
(`ModelIsStructure`, `ModelSatisfies`).

| module | theorem | states |
|---|---|---|
| `FastModelProofs` | `TypeCorrect` | `Spec => []TypeOK` |
| | `NegativeAtoms` | `Spec => []NegativeAtomsAreKept` |
| | `Implements` | `Spec => ImplementsCreation` |
| `ConnectedModelProofs` | `TypeCorrect` | `Spec => []TypeOK` |
| | `PointsCorrect` | `Spec => []PointsAreAllValid` |
| | `ComponentsCorrect` | `Spec => []ComponentsAreSeparate` |
| | `ModelCorrect` | `Spec => []ModelIsConnected` |
| | `Completeness` | `Spec => []AnswerIsComplete` |
| `MeasuredModelProofs` | `TypeCorrect` | `Spec => []TypeOK` |
| | `SearchCorrect` | `Spec => []NoModelIsPassedOver` |
| | `MeasuresCorrect` | `ExactArithmetic = TRUE` implies `Spec => []MeasuredValuesFitTheModel` |
| | `Implements` | `ExactArithmetic = TRUE` implies `Spec => ImplementsCreation` |

*Fast model.* The points taken so far are distinct and valid and their contacts permitted
(`Permitted`), the atoms done with hold in them (`TakenHold`), and the matrix has room for two more
points for each contact and one for each term left, so that it is never written outside of its size.
For completeness, nothing enumerated before the current evaluation fits the atom
(`NoneBefore`): when the last one has been tested, a solution would have to have a point that was
passed over.

*Connected model.* While points are enumerated, they are exactly the valid evaluations before the
current one (`Enumerated`); then they are all valid ones (`AllValid`), in all permitted contacts
(`AllContacts`), so every connected solution is a part of them. The traversal keeps a partition
of the points into finished components, the current one, its queue and the rest (`Partition`,
`Visiting`): a component that is finished is not left by any contact, and it hangs together (`IsLinked`: every
proper part of it is left by a contact to the rest of it), because a point that is added to a set with
this property, in contact with one of its points, keeps it; no paths are needed.
Therefore a connected solution lies within one component, where the tests succeed (`Hopeful`), and
the loop cannot end without trying it. The part of the model over a component is a
model again when its points are numbered through (`PartIsModel`, `ComponentIsModel`).

*Measured model.* All valid points are enumerated, each once, by rank: an order on a finite set
gives each element a number of elements before it, and each number once (`Ranks`, `InOrder`; the same
lemma is about the points of a subset). A subset of the points in all permitted contacts is a model if
its positive atoms hold and its points have a measure (`IsModelOf`); it is `Hopeless` if no part of
it is a model. The calls that wait shrink strictly (`Chain`), so none of them is about the subset that is
looked at now; each subset that has been processed is hopeless or one of theirs (`Searched`),
and none of theirs is a model itself, nor any part of what was left when a point before the current one was
taken out (`Tried`). That is what makes it right to pass over a subset that is already processed.
Its lemmas about sums show that a sum over a finite set does not depend on the order in which `FiniteSetsExt` takes
the elements, nor on their names (`SumRenamed`), and that what is on both sides of a row can be left
out (`SumsCompared`); so solutions of a system over numbers of points are measures of the points
(`MeasureIsSolution`, `SolvableIsMeasurable`). `TypeCorrect` and `SearchCorrect` also hold for
a solver that makes rounding errors, which accepts too much but never too little. Measures have weights up to
`MaxWeight`, whatever it is; that some bound is enough for the real solver is not proved.
A model that is saved has all contacts that the negative atoms leave (`Allowed`), so its structure is a solution
(`ModelIsSolution`). The code keeps them only if there are variables; without any, the positive atoms that
would need them are absent, or a look-up has ended the process, so the answer is right all the same
(`PositiveIsTested`, under the guard of `NewSubset`), while the structure answered is that solution without
its contacts (`ModelIsFound`).

The library's induction theorems cannot be used here; induction is replaced by the least or greatest number, or
the smallest set, for which something fails (`LeastElement`, `LargestElement`, `SmallestSet`).

### 4.5 From the text to the tableau

`FormulaMgrProofs` proves, for every set of variables, every formula of any depth, every set of flags and
every class of structures that satisfies `StructureAssumption`:

| theorem | states |
|---|---|
| `TypeCorrect` | `Spec => []TypeOK` |
| `MeaningCorrect` | `Spec => []MeaningIsKept` |
| `BuildCorrect` | `Spec => []EveryTextIsBuilt` |
| `FlagsCorrect` | `Spec => []FlagsAreObeyed` |
| `EvaluationCorrect` | `Spec => []EvaluationIsExact` |
| `AnswerCorrect` | `Spec => []AnswerIsAboutTheText` |
| `TableauApplies` | `Spec => [](pc \in {"built", "solved"} => IsGiven(f_))` |
| `StructuresAreAsAssumed` | structures of points with contacts satisfy the assumptions |

The assumptions are `ModelAssumption`, `StructureAssumption` and `InputAssumption` (what the parser makes of
a text is a formula); TLC evaluates them in `formula_mgr` and `formula_assert`.
The first two hold of every nonempty set of structures with distinct points and reflexive, symmetric
contacts, whatever is taken for `LessEq` (`StructuresAreAsAssumed`).

*Trees.* `Trees`, `Depth` and `Visit` are recursive functions on an infinite set, so it has to be shown
first that there is a function that satisfies the equation: the functions up to each depth agree where
both are defined (`TreesExist`, `DepthOfTree`, `AllAreVisited`). Then a visit can be unfolded at the
root (`VisitUnfolds`). What a visit does to all trees is shown by a tree of least depth for which it
fails (`TreeInduction`). The visitor that splits makes new nodes and visits these, which are not below the one it has
split; but each is less deep on one side and no deeper on the other, which is enough
(`VisitInduction`).

*Meaning.* `Same(n, k)` says that `k` is well formed and may stand for `n`: a formula by one with the
same structures, a term by one with the same points. Every refiner leaves such a node, whatever has become of the
children as long as they may stand for those (`SameAt`, `SameBefore`, one lemma for each refiner and
kind of node), therefore such a tree (`SameVisited`). This is where reflexivity and
symmetry of contact are needed, and that a structure has a point: `C(1,1)` is reduced to `T`.

*Form.* An operation that is gone does not come back (`FreeVisited`), and its refiner removes it
(`FreedVisited`), also in what other refiners have copied. Reducing the constants leaves no node that
could be reduced (`AllReduced`, by `ReducedVisited`); converting the contacts makes negations of equations, in
which only the side that was no constant stays (`ContactsVisited`), and removing double negations pulls up
nodes that were reduced before (`DoubleNegationVisited`, `NoDoubleNegationVisited`).

None of the properties is inductive: that the formula can be built in the end depends on
all stages before. The invariant `IInv` says of the AST between two stages that it is well formed and
means what the text means (`Kept`), and of each stage what has been achieved before it (`Obeys`): no
implication or equality after the first, no `<=` after the fifth, reduced constants only between the stages that
rely on it, and so on. `Obeys` holds whichever stages the flags leave out (`NextObeys`). TLC checked
`IInv` on the instance of `formula_mgr` before the proof.

*Evaluation.* `Shows(e, holds)` says of an evaluation that it counts and is right. Without
`<=m` and F each node's shows its meaning if the children's do (`EvaluatedIsMeant`); `F` evaluates to true and
`<=m` does not count, so neither can be left out of the premise (section 5).

*To the tableau.* `TableauProofs` and this module meet in `Formulas`, whose constants and assumptions say what the tableau
may rely on. `Given(f)` instantiates it with what has been built: the nodes of `f` up to `Identity`,
their kinds and children, and the sets of signed formulas that have a structure. `IsGiven(f)` says
that all assumptions of `Formulas` hold there, and that `f` is satisfiable there exactly
if `Meaning(f)` is not empty; `TableauApplies` that this is so of every formula the manager hands over. The
point is `operator==`: nodes that it does not tell apart share one entry on the path, so they have to mean the
same (`IdentityMeans`), which for `C(a,b)` and `C(b,a)` is the symmetry of contact. Terms in contact
must not be empty, for the tableau's contact rule (`ContactHasPoints`).

### 4.6 What is only model-checked

Liveness under fairness is out of the prover's reach: `EveryCallEnds`, `CreateEnds`,
`StopsWhenAbandoned`, `EntriesLeave`, `TimersEnd`. Every other property of a
passing run is a theorem.

## 5. Where code and documentation disagree

1. `LimitHolds` (`server_limit`). `handle_task` compares `running_tasks` with
   the limit (line 186), the worker raises it later (line 243). With the limit 1,
   two requests that pass the check before either worker starts both run.
   `source.cpp:63` documents "the max number of tasks which can be ran in the same
   time".
2. `CreateIsSound` (`connected_sound`). `connected_model::create` restricts the
   variables' evaluations to one component (line 73) but evaluates terms over all
   points, so a complement contains the points outside of the component
   (`term.cpp:132`). For `-b=0, a*b#0, -a#0, ~C(a,-a)` it accepts the component
   of the one point where `a` and `b` are true, though no point of it is in `-a`;
   no connected structure satisfies these atoms. Line 78 says "The connected component is also a valid
   model", and `tests/satisfiability_tests.cpp:23` expects it of every model.
3. `MeasureExists` (`measured_solver`). The unknowns are bounded below by 0.00000001
   (`system_of_inequalities_impl.cpp:134`), and the solver takes for zero what is below
   1.0e-8 (`kiwi/util.h:19`): a row missed by one such unit can pass. The atoms
   `<=m(a+b,-a)`, `~<=m(a*b,(a*-b)+(-a*b))`, `~<=m(a,-a*-b)` have no measure, yet a model
   is returned. `system_of_inequalities.h:26` says "Searching for a strictly positive
   solution! (i.e. Xi > 0 for each variable)", and line 54 that the values "satisfy the system" if it is
   solvable.
4. `ModelIsSatisfiable` (`formula_assert`). `evaluate` gives `<=m` a value that does not count; a
   disjunction whose left side is such and whose right side is false counts as
   false (`formula.cpp:238-241`). For `<=m(a,b) | ~C(a,b)` the model found is not one for
   `is_model_satisfiable`, which `formula_mgr.cpp:164` asserts and
   `tests/satisfiability_tests.cpp:33` checks. So it is for `~(<=m(b,a) & C(a,b))` and
   `~<=m(a,b) | a*b=0`; without refiners also for `~F & C(a,b)`, as F evaluates to true.
   `EvaluationIsExact` says that nothing else goes wrong.
5. A formula without variables (`TypeOK` and `Found` of `MeasuredModel`, in the run `measured_model`; no run
   of its own). `build_contact_relations_matrix` takes the number of points from the evaluation of the first variable and
   returns an empty matrix if there is none (`utils.cpp:110-113`). For `~C(0,1)`, if no refiner is asked for,
   `measured_model::create` returns true with one point and no row of contacts, where
   `utils.h:69` promises a matrix of "@points_count x @points_count" and `imodel.cpp:95` notes "that
   every point should have at least one contact(itself)". The answer is right: no positive contact is
   left to be evaluated, and `formula_mgr.cpp:164` evaluates the formula over the rows of the matrix, that is over no
   point, where every `C` is false.

The models also contain behaviour that is not refuted by a run, and which a reader should know of:

- A body that `uri::decode` (line 245) cannot decode leaves the counter raised for good; the
  service admits one task less from then on. `CountIsExact` counts such slots as `undecoded`, so it tells of the leak
  and does not exclude it.
- A ping that arrives after the time limit replaces `FINISHED` by `CANCELED`, also if the task
  ended in time (`Report` of `TaskLifecycle` allows it).
- A worker finds its task by identifier. If an identifier came up again after its entry was
  erased, the worker of the old task would update the new one; `FreshIds` excludes it.
- A POST that fails leaves the buttons of the page closed, while the page says "please try again after a few
  seconds" or "please try again later" (`index.html:144-151`): only a reload makes that possible. The page
  contradicts itself here; `ButtonsFollowTheTask` states what it does, so it does not show this as an error.
- A ping slower than the interval of a second may be overtaken by the next; then a timer uses the
  identifier of another task, or none (`overlapped`).
- A formula without variables caches no term evaluations, but those of its positive atoms and measures
  are looked up (`LookUpFails`); `<=m(0,0) & <=m(1,0)` ends the process.

## 6. What is not modelled, and the plan

Not modelled: the static file service and the unrouted formula generation (I/O, and a stub), JSON
output and printing, the grammar and the generated scanner and parser, the registries of nodes and
strings (straight-line code around one parse), the command line tools, the
WebAssembly entry point (one synchronous call), the older `client/`, performance
measurements, documentation and the vendored libraries, of which the solver of
inequalities is modelled by its answers. In `Tableau`: logging, the choice of model class. In
`FormulaMgr`: moving a manager, the brute force entry point. In `RestServer`: undefined behaviour of thread-local
callbacks that outlive a lambda, the messages' texts, and the start-up of the listener.

Left of the plan, in order of importance:

1. **ThreadCallbacks**: pool threads with thread-local loggers and termination
   callback, and the lambdas they refer to.
2. **BruteforceModel** and **EvaluationBlock**: the block for a positive term, an
   enumeration over two masks; no button of the page leads there.
3. **ParserMemory**: the registry of nodes and strings, on success, on a syntax
   error and when the parser is called again.
