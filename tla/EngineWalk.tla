----------------------------- MODULE EngineWalk -----------------------------
(***************************************************************************)
(* One execution of a document by the engine: packages/engine/src/         *)
(* engine.ts walks the nodes of the main document, engine-include.ts and   *)
(* engine-template.ts walk other files in the middle of it, iter-ops.ts    *)
(* walks a loop body once per item, and a macro call walks the macro.      *)
(*                                                                         *)
(* The recursion of walkNodes is made explicit: one frame of `stack` is one *)
(* activation of walkNodes (or of the loop of execute or executeImport),   *)
(* with the nodes it has still to walk.  Exceptions unwind it frame by     *)
(* frame through the catch and finally clauses of the code.                *)
(*                                                                         *)
(* A context is a record of references into `store`, because the code      *)
(* copies a context with { ...ctx } and so shares every table it does not  *)
(* replace: two contexts share a table when they hold the same reference.  *)
(*                                                                         *)
(* Left out: the rendered text, warnings, the values of process.env, the   *)
(* macros of the standard library, positional arguments of macros, and     *)
(* directives as the data of a @template or in a @data block.              *)
(*                                                                         *)
(* The definitions just before ForkedCtx, NextItem, Chosen, Open,          *)
(* IncludeTables, Bubbled and Unwind are mutants of them, each with one    *)
(* mistake.                                                                *)
(***************************************************************************)
EXTENDS Integers, Sequences, FiniteSets

CONSTANTS
    Files, Main,     \* document paths, and the one that is executed
    Vars, Values,    \* names bound by @set and friends, and their values
    Unset, Null,     \* no binding (undefined), and the value null
    Pending,         \* in place of a shadowed binding: the loop has not begun
    Truthy(_),       \* Truthy(v): JavaScript's Boolean(v)
    AsText(_),       \* AsText(v): the string a typed value is stored as
    Empty, NullText, \* the empty string, and the string "null"
    Substitute(_, _), \* Substitute(n, args): node n with {{ name }} replaced
    Macros, Conns, EnvNames, Phases,
    NoPhase,         \* null
    NoTarget,        \* an @on-complete action that is not a phase name
    Otherwise,       \* the condition of @else, and of an @include without if
    NoBody,          \* a macro that is not defined, a missing default branch
    Nodes,           \* the nodes documents are made of
    Programs,        \* what the files may hold: functions from Files to Content
    Requests,        \* the phases the caller may ask for, or NoPhase
    StackLimit       \* depth at which the JavaScript stack overflows

\* A file is outside the jail, cannot be read, does not parse, has no header,
\* or is a document; `phases` when it has a @phase, which @import rejects.
Content == [state : {"blocked", "unreadable", "malformed", "headerless", "ok"},
            phases : BOOLEAN, nodes : Seq(Nodes)]

ASSUME WalkAssumption ==
    /\ Main \in Files
    /\ Programs \subseteq [Files -> Content]
    /\ \A prog \in Programs : prog[Main].state = "ok"
    /\ {Unset, Pending} \cap Values = {} /\ Pending # Unset
    /\ {Null, Empty, NullText} \subseteq Values
    /\ NoPhase \notin Phases
    /\ Requests \subseteq Phases \cup {NoPhase}
    /\ StackLimit \in Nat \ {0}

\* Arguments by name: of a macro call, or the item of a loop.
Bindings == UNION { [names -> Values] : names \in SUBSET Vars }

\* The bodies a node carries are made of nodes, it names a file if it stands
\* for one, and the rest of it has the types the parser gives it.
ASSUME NodeAssumption ==
    \A n \in Nodes :
        /\ n.type # "document"
        /\ n.type \in {"phase", "define", "foreach"} => n.body \in Seq(Nodes)
        /\ n.type = "conditional" =>
              \A i \in 1..Len(n.branches) : n.branches[i].body \in Seq(Nodes)
        /\ n.type = "switch" =>
              /\ n.default \in {NoBody} \cup Seq(Nodes)
              /\ \A i \in 1..Len(n.cases) : n.cases[i].body \in Seq(Nodes)
        /\ n.type \in {"include", "template", "import"} => n.file \in Files
        /\ n.type = "foreach" =>
              /\ n.var \in Vars /\ n.items \in Seq(Values)
              /\ n.source \in {NoBody} \cup Seq(Nodes)
        /\ n.type = "set" =>
              /\ n.var \in Vars
              /\ IF n.rhs = "expr" THEN n.of \in Vars ELSE n.value \in Values
              /\ n.rhs = "directive" => n.source \in {NoBody} \cup Seq(Nodes)
        /\ n.type = "source" => n.text \in Values /\ n.row \in Values \cup {Unset}
        /\ n.type = "template" => n.of \in Vars
        /\ n.type = "phase" => n.transitions \in Seq(Phases \cup {NoTarget})
        /\ n.type = "transition" => n.target \in Phases \cup {NoTarget}
        /\ n.type = "call" => n.name \in Macros /\ n.args \in Bindings
        /\ n.type = "connect" => n.local \in BOOLEAN
        /\ n.type = "env" => n.fallback \in Values \cup {Unset}

ASSUME SubstituteAssumption ==
    \A n \in Nodes, args \in Bindings : Substitute(n, args) \in Nodes

ASSUME ValueAssumption == \A v \in Values \cup {Unset} : AsText(v) \in Values

VARIABLES
    source,     \* what the files hold; constant during one execution
    stack,      \* the activations, the innermost last
    store,      \* the tables contexts refer to, by kind of table
    callstack,  \* ctx.callstack
    resolving,  \* ctx.resolutionStack
    completed,  \* ctx.completedSet
    fallbacks,  \* ctx.envFallbacks
    chosen,     \* ctx.chosenTransition of the main context
    thrown      \* the exception in flight: its kind, and the file of a cycle

vars == <<source, stack, store, callstack, resolving, completed, fallbacks,
          chosen, thrown>>

Tables == {"env", "data", "macros", "conns", "locals"}

Nothing   == [kind |-> "none"]
AnError   == [kind |-> "error"]
Fatal(why, f) == [kind |-> "fatal", why |-> why, file |-> f]

-----------------------------------------------------------------------------
(* Frames and contexts *)

\* node: what the frame walks for; todo: the nodes still to be walked; file:
\* ctx.filePath; ctx: the tables of its context; phase: ctx.phase; items and
\* saved: the rest of a loop and the shadowed binding, Pending while the source
\* of the loop is walked.
Frame(node, todo, file, ctx, phase) ==
    [node |-> node, todo |-> todo, file |-> file, ctx |-> ctx, phase |-> phase,
     items |-> <<>>, saved |-> Unset]

Top == stack[Len(stack)]
Node == Head(Top.todo)
Below == stack[Len(stack) - 1]
Popped == SubSeq(stack, 1, Len(stack) - 1)

\* The rest of the stack once the current node has been taken.
Taken == [stack EXCEPT ![Len(stack)].todo = Tail(@)]

Substituted(body, args) == [i \in 1..Len(body) |-> Substitute(body[i], args)]

\* The frame that walks a body of the current node in the same context.
Inner(body) == Frame(Node, body, Top.file, Top.ctx, Top.phase)

Opens(fr) == fr.node.type \in {"document", "include", "template", "import"}

Table(t) == store[t][Top.ctx[t]]
With(t, x, v) == [store EXCEPT ![t][Top.ctx[t]][x] = v]

\* The tables of a new context.
Blank(t) == CASE t \in {"env", "data"} -> [v \in Vars |-> Unset]
              [] t = "macros" -> [m \in Macros |-> NoBody]
              [] t = "conns"  -> [c \in Conns |-> Unset]
              [] t = "locals" -> [c \in Conns |-> FALSE]

\* A context with its own copies of the tables ts; the set of local
\* connections starts empty.
Forked(ts) ==
    [t \in Tables |->
        IF t \notin ts THEN store[t]
        ELSE Append(store[t], IF t = "locals" THEN Blank(t) ELSE Table(t))]
ForkedCtxSharing(ts) ==
    [t \in Tables |-> IF t \in ts \ {"macros"} THEN Len(store[t]) + 1 ELSE Top.ctx[t]]
ForkedCtx(ts) == [t \in Tables |-> IF t \in ts THEN Len(store[t]) + 1 ELSE Top.ctx[t]]

\* The first of a set of positions.
First(S) == CHOOSE i \in S : \A j \in S : i <= j

\* The tables that are still reachable when only `fr` and those below remain.
Kept(st, fr) == [t \in Tables |-> SubSeq(st[t], 1, fr.ctx[t])]

Ready == stack # <<>> /\ thrown = Nothing

\* The next node to walk is of type t, and walkNodes, not executeImport, has it.
At(t) ==
    /\ Ready
    /\ Top.todo # <<>>
    /\ Node.type = t
    /\ Top.node.type # "import"

Done(t) == Ready /\ Top.todo = <<>> /\ Top.node.type = t

Throw(e) ==
    /\ thrown' = e
    /\ stack' = Taken
    /\ UNCHANGED <<source, store, callstack, resolving, completed, fallbacks, chosen>>

\* Walk a body in the current context.  The JavaScript stack is finite: an
\* overflow is an ordinary exception of the directive that went too deep.
Walk(frame) ==
    IF Len(stack) >= StackLimit
    THEN /\ stack' = Taken
         /\ thrown' = AnError
    ELSE /\ stack' = Append(Taken, frame)
         /\ UNCHANGED thrown

Skip ==
    /\ stack' = Taken
    /\ UNCHANGED <<source, store, callstack, resolving, completed, fallbacks,
                   chosen, thrown>>

-----------------------------------------------------------------------------
(* Variables and conditions *)

\* What an expression sees under the name v: ctx.data shadows ctx.envFiles.
Seen(v) == IF Table("data")[v] # Unset THEN Table("data")[v] ELSE Table("env")[v]

Bind(v, text, typed) ==
    store' = [With("env", v, text) EXCEPT !["data"][Top.ctx["data"]][v] = typed]

\* evaluateSource, for a right-hand side that is a directive: it is parsed, and
\* walked in the same context.  The source of any other text is <<>>, that of
\* a directive that does not parse is NoBody.
Evaluate(frame) ==
    /\ IF Node.source = NoBody THEN stack' = Taken /\ thrown' = AnError
                               ELSE Walk(frame)
    /\ UNCHANGED <<source, store, callstack, resolving, completed, fallbacks, chosen>>

\* @set v = {{ expr }} keeps the type; any other right-hand side is a string
\* and leaves a typed value of the same name where it is.
ExecuteSet ==
    /\ At("set") /\ Node.rhs # "directive"
    /\ LET v == Node.var
           typed == IF Node.rhs = "expr" THEN Seen(Node.of) ELSE Node.value
       IN CASE Node.rhs = "text" -> store' = With("env", v, AsText(Node.value))
            [] Node.rhs # "text" /\ typed \in {Unset, Null} ->
                   store' = With("env", v, Empty)
            [] OTHER -> Bind(v, AsText(typed), typed)
    /\ stack' = Taken
    /\ UNCHANGED <<source, callstack, resolving, completed, fallbacks, chosen, thrown>>

SetFromDirective ==
    /\ At("set") /\ Node.rhs = "directive"
    /\ Evaluate(Inner(Node.source))

\* What a directive prints is bound as text: its value, or nothing if it fails.
EndSet ==
    /\ Done("set") /\ Top.node.rhs = "directive"
    /\ \E printed \in {Empty, AsText(Top.node.value)} :
          store' = With("env", Top.node.var, printed)
    /\ stack' = Popped
    /\ UNCHANGED <<source, callstack, resolving, completed, fallbacks, chosen, thrown>>

\* A source directive with label=: the text goes to envFiles, and @db as=row
\* also stores the row, or null when there is none.
ExecuteLabelled ==
    /\ At("source")
    /\ store' = IF Node.row = Unset THEN With("env", Node.label, AsText(Node.text))
                ELSE [With("env", Node.label, AsText(Node.text))
                         EXCEPT !["data"][Top.ctx["data"]][Node.label] = Node.row]
    /\ stack' = Taken
    /\ UNCHANGED <<source, callstack, resolving, completed, fallbacks, chosen, thrown>>

\* @if: the body of the first branch whose condition holds.
HandleConditional ==
    /\ At("conditional")
    /\ LET holds == { i \in 1..Len(Node.branches) :
                        \/ Node.branches[i].on = Otherwise
                        \/ Truthy(Seen(Node.branches[i].on)) }
       IN IF holds = {} THEN stack' = Taken /\ UNCHANGED thrown
          ELSE Walk(Inner(Node.branches[First(holds)].body))
    /\ UNCHANGED <<source, store, callstack, resolving, completed, fallbacks, chosen>>

\* @switch: the first case that prints like the value, else the default.
HandleSwitch ==
    /\ At("switch")
    /\ LET same == { i \in 1..Len(Node.cases) :
                       Node.cases[i].is = AsText(Seen(Node.on)) }
           body == IF same = {} THEN Node.default ELSE Node.cases[First(same)].body
       IN IF body = NoBody THEN stack' = Taken /\ UNCHANGED thrown
          ELSE Walk(Inner(body))
    /\ UNCHANGED <<source, store, callstack, resolving, completed, fallbacks, chosen>>

EndBlock ==
    /\ Ready /\ Top.todo = <<>> /\ Top.node.type \in {"conditional", "switch"}
    /\ stack' = Popped
    /\ UNCHANGED <<source, store, callstack, resolving, completed, fallbacks,
                   chosen, thrown>>

-----------------------------------------------------------------------------
(* @foreach *)

\* The body of a loop for one item: the item is written into it, wherever it
\* says {{ var }}, before it is walked.
Unrolled(node, item) == Substituted(node.body, [v \in {node.var} |-> item])

\* The source comes first; a loop over plain text has none.
ExecuteForeach ==
    /\ At("foreach")
    /\ Evaluate([Inner(Node.source) EXCEPT !.saved = Pending])

\* What the source printed is split; a directive that fails prints nothing.
Splits(node) == {node.items} \cup (IF node.source = <<>> THEN {} ELSE {<<>>})

\* The loop binds the first item over whatever the variable held.
BeginLoop ==
    /\ Done("foreach") /\ Top.saved = Pending
    /\ \E items \in Splits(Top.node) :
         IF items = <<>> THEN stack' = Popped /\ UNCHANGED store
         ELSE /\ store' = With("env", Top.node.var, Head(items))
              /\ stack' = [stack EXCEPT
                    ![Len(stack)].todo = Unrolled(Top.node, Head(items)),
                    ![Len(stack)].items = Tail(items),
                    ![Len(stack)].saved = Table("env")[Top.node.var]]
    /\ UNCHANGED <<source, callstack, resolving, completed, fallbacks, chosen, thrown>>

BodyDone == Done("foreach") /\ Top.saved # Pending

NextItemAgain ==
    /\ BodyDone
    /\ Top.items # <<>>
    /\ store' = With("env", Top.node.var, Head(Top.items))
    /\ stack' = [stack EXCEPT ![Len(stack)].todo = Unrolled(Top.node, Head(Top.items))]
    /\ UNCHANGED <<source, callstack, resolving, completed, fallbacks, chosen, thrown>>

NextItem ==
    /\ BodyDone
    /\ Top.items # <<>>
    /\ store' = With("env", Top.node.var, Head(Top.items))
    /\ stack' = [stack EXCEPT ![Len(stack)].todo = Unrolled(Top.node, Head(Top.items)),
                              ![Len(stack)].items = Tail(@)]
    /\ UNCHANGED <<source, callstack, resolving, completed, fallbacks, chosen, thrown>>

EndForeach ==
    /\ BodyDone
    /\ Top.items = <<>>
    /\ store' = With("env", Top.node.var, Top.saved)
    /\ stack' = Popped
    /\ UNCHANGED <<source, callstack, resolving, completed, fallbacks, chosen, thrown>>

-----------------------------------------------------------------------------
(* Phases, transitions and macros *)

\* Another phase than the requested one is not walked at all.  An included
\* file has no active phase, so all of its phases are.
HandlePhase ==
    /\ At("phase")
    /\ IF Top.phase \notin {NoPhase, Node.name} \/ Len(stack) >= StackLimit
       THEN /\ stack' = Taken
            /\ thrown' = IF Top.phase \in {NoPhase, Node.name} THEN AnError
                                                                   ELSE thrown
            /\ UNCHANGED callstack
       ELSE /\ stack' = Append(Taken, Inner(Node.body))
            /\ callstack' = Append(callstack, Node)
            /\ UNCHANGED thrown
    /\ UNCHANGED <<source, store, resolving, completed, fallbacks, chosen>>

ChosenAnywhere(targets) ==
    LET named == { i \in 1..Len(targets) : targets[i] # NoTarget } IN
    IF chosen = NoPhase /\ named # {} THEN targets[First(named)] ELSE chosen

\* Record the target of a transition that is walked, unless one has been.
Chosen(targets) ==
    LET named == { i \in 1..Len(targets) : targets[i] # NoTarget } IN
    IF Top.phase # NoPhase /\ chosen = NoPhase /\ named # {}
    THEN targets[First(named)] ELSE chosen

\* The transitions of a phase come after its body.
EndPhase ==
    /\ Done("phase")
    /\ chosen' = Chosen(Top.node.transitions)
    /\ stack' = Popped
    /\ callstack' = SubSeq(callstack, 1, Len(callstack) - 1)
    /\ UNCHANGED <<source, store, resolving, completed, fallbacks, thrown>>

\* An @on-complete inside a branch that was taken.
WalkTransition ==
    /\ At("transition")
    /\ chosen' = Chosen(<<Node.target>>)
    /\ stack' = Taken
    /\ UNCHANGED <<source, store, callstack, resolving, completed, fallbacks, thrown>>

\* The last definition of a name wins.
WalkDefine ==
    /\ At("define")
    /\ store' = With("macros", Node.name, Node.body)
    /\ stack' = Taken
    /\ UNCHANGED <<source, callstack, resolving, completed, fallbacks, chosen, thrown>>

HandleCall ==
    /\ At("call")
    /\ LET body == Table("macros")[Node.name] IN
       IF body = NoBody \/ Len(stack) >= StackLimit
       THEN /\ stack' = Taken
            /\ thrown' = IF body = NoBody THEN thrown ELSE AnError
            /\ UNCHANGED callstack
       ELSE /\ stack' = Append(Taken, Inner(Substituted(body, Node.args)))
            /\ callstack' = Append(callstack, Node)
            /\ UNCHANGED thrown
    /\ UNCHANGED <<source, store, resolving, completed, fallbacks, chosen>>

EndCall ==
    /\ Done("call")
    /\ stack' = Popped
    /\ callstack' = SubSeq(callstack, 1, Len(callstack) - 1)
    /\ UNCHANGED <<source, store, resolving, completed, fallbacks, chosen, thrown>>

\* A connection remembers the file whose context registered it.
WalkConnect ==
    /\ At("connect")
    /\ store' = LET registered == With("conns", Node.name, [by |-> Top.file,
                                                           local |-> Node.local])
                IN IF Node.local
                   THEN [registered EXCEPT !["locals"][Top.ctx["locals"]][Node.name] = TRUE]
                   ELSE registered
    /\ stack' = Taken
    /\ UNCHANGED <<source, callstack, resolving, completed, fallbacks, chosen, thrown>>

\* An @env that is walked prints a value; its fallback is not registered.
WalkEnv == At("env") /\ Skip

\* A directive the engine does not know how to walk, such as a bare @render.
WalkUnhandled == At("render") /\ Throw(AnError)

-----------------------------------------------------------------------------
(* Other files *)

\* Does the condition of @include or @template hold?
Wanted == Node.on = Otherwise \/ Truthy(Seen(Node.on))

OpenUnmarked(ctx, st) ==
    IF Len(stack) >= StackLimit
    THEN Throw(AnError)
    ELSE /\ stack' = Append(Taken, Frame(Node, source[Node.file].nodes, Node.file, ctx, NoPhase))
         /\ store' = st
         /\ UNCHANGED <<source, callstack, resolving, completed, fallbacks, chosen, thrown>>

\* Walk the file of the current node in the context ctx, without an active
\* phase; st is the store then.
Open(ctx, st) ==
    IF Len(stack) >= StackLimit
    THEN Throw(AnError)
    ELSE /\ stack' = Append(Taken, Frame(Node, source[Node.file].nodes, Node.file, ctx, NoPhase))
         /\ store' = st
         /\ resolving' = resolving \cup {Node.file}
         /\ UNCHANGED <<source, callstack, completed, fallbacks, chosen, thrown>>

IncludeTablesApart == {"conns", "locals", "macros"}
\* What an included file has of its own; variables and macros are shared.
IncludeTables == {"conns", "locals"}

\* @include walks the file now, whether or not it was walked before.
ExecuteInclude ==
    /\ At("include")
    /\ LET f == Node.file  state == source[f].state IN
       CASE ~ Wanted                     -> Skip
         [] Wanted /\ state = "blocked"  -> Throw(Fatal("blocked", f))
         [] Wanted /\ state # "blocked" /\ f \in resolving -> Throw(Fatal("cycle", f))
         [] OTHER ->
              CASE state = "malformed" -> Throw(AnError)
                [] state = "ok" -> Open(ForkedCtx(IncludeTables), Forked(IncludeTables))
                [] OTHER -> Skip

\* The connections of the file that are not local go to the including context.
Bubbled ==
    [c \in Conns |-> IF Table("locals")[c] THEN store["conns"][Below.ctx["conns"]][c]
                                           ELSE Table("conns")[c]]

EndInclude ==
    /\ Done("include")
    /\ stack' = Popped
    /\ store' = [Kept(store, Below) EXCEPT !["conns"][Below.ctx["conns"]] = Bubbled]
    /\ resolving' = resolving \ {Top.node.file}
    /\ completed' = completed \cup {Top.node.file}
    /\ UNCHANGED <<source, callstack, fallbacks, chosen, thrown>>

\* How the data of a template prints: null prints as "null" here.
DataText(v) == CASE v = Unset -> Unset [] v = Null -> NullText [] OTHER -> AsText(v)

\* The variable a template sees its data under, in the template's own tables.
Bound(st) ==
    LET v == Seen(Node.of)
        e == Len(st["env"])
        d == Len(st["data"])
    IN [st EXCEPT !["env"][e][Node.as] = DataText(v), !["data"][d][Node.as] = v]

\* @template walks the file in a copy of every table of the caller.
ExecuteTemplate ==
    /\ At("template")
    /\ LET f == Node.file  state == source[f].state IN
       CASE ~ Wanted                     -> Skip
         [] Wanted /\ state = "blocked"  -> Throw(Fatal("blocked", f))
         [] Wanted /\ state # "blocked" /\ f \in resolving -> Throw(Fatal("cycle", f))
         [] OTHER ->
              CASE state = "malformed" -> Throw(AnError)
                [] state = "ok" -> Open(ForkedCtx(Tables), Bound(Forked(Tables)))
                [] OTHER -> Skip

EndTemplate ==
    /\ Done("template")
    /\ stack' = Popped
    /\ store' = Kept(store, Below)
    /\ resolving' = resolving \ {Top.node.file}
    /\ completed' = completed \cup {Top.node.file}
    /\ UNCHANGED <<source, callstack, fallbacks, chosen, thrown>>

\* @import registers the definitions of a file that is not completed yet.
\* It is a directive of a walked file and of an imported one alike.
ExecuteImport ==
    /\ Ready /\ Top.todo # <<>> /\ Node.type = "import"
    /\ LET f == Node.file  state == source[f].state IN
       CASE state = "blocked" \/ f \in completed -> Skip
         [] state # "blocked" /\ f \notin completed /\ f \in resolving ->
              Throw(Fatal("cycle", f))
         [] OTHER ->
              CASE state = "malformed" \/ (state = "ok" /\ source[f].phases) -> Throw(AnError)
                [] state = "ok" /\ ~ source[f].phases -> Open(Top.ctx, store)
                [] OTHER -> Skip

InImport(t) ==
    /\ Ready
    /\ Top.todo # <<>>
    /\ Node.type = t
    /\ Top.node.type = "import"

ImportEnv ==
    /\ InImport("env")
    /\ fallbacks' = IF Node.fallback = Unset THEN fallbacks
                    ELSE [fallbacks EXCEPT ![Node.name] = Node.fallback]
    /\ stack' = Taken
    /\ UNCHANGED <<source, store, callstack, resolving, completed, chosen, thrown>>

ImportDefine ==
    /\ InImport("define")
    /\ store' = With("macros", Node.name, Node.body)
    /\ stack' = Taken
    /\ UNCHANGED <<source, callstack, resolving, completed, fallbacks, chosen, thrown>>

\* An imported connection is registered as it is, its @local not looked at.
ImportConnect ==
    /\ InImport("connect")
    /\ store' = With("conns", Node.name, [by |-> Top.file, local |-> FALSE])
    /\ stack' = Taken
    /\ UNCHANGED <<source, callstack, resolving, completed, fallbacks, chosen, thrown>>

\* Content of an imported file is discarded.
ImportNothing ==
    /\ Ready /\ Top.todo # <<>> /\ Top.node.type = "import"
    /\ Node.type \notin {"env", "define", "connect", "import"}
    /\ Skip

EndImport ==
    /\ Done("import")
    /\ stack' = Popped
    /\ resolving' = resolving \ {Top.node.file}
    /\ completed' = completed \cup {Top.node.file}
    /\ UNCHANGED <<source, store, callstack, fallbacks, chosen, thrown>>

-----------------------------------------------------------------------------
(* Exceptions *)

\* walkNodes swallows an ordinary exception of one of its nodes and goes on;
\* execute swallows every exception, and goes on as well.
Catch ==
    /\ stack # <<>>
    /\ thrown # Nothing
    /\ \/ Top.node.type = "document"
       \/ thrown.kind = "error" /\ Top.node.type # "import"
    /\ thrown' = Nothing
    /\ UNCHANGED <<source, stack, store, callstack, resolving, completed,
                   fallbacks, chosen>>

UnwindKeeping ==
    /\ stack # <<>>
    /\ thrown # Nothing
    /\ Top.node.type # "document"
    /\ thrown.kind = "fatal" \/ Top.node.type = "import"
    /\ stack' = Popped
    /\ store' = Kept(store, Below)
    /\ resolving' = IF Top.node.type \in {"include", "template"}
                    THEN resolving \ {Top.node.file} ELSE resolving
    /\ UNCHANGED <<source, callstack, completed, fallbacks, chosen, thrown>>

\* A FatalError leaves every other activation, and an ordinary exception the
\* activations of executeImport.  @include and @template give up their file,
\* a phase and a call their entry of the callstack; @import and @foreach
\* have nothing that runs on the way out.
Unwind ==
    /\ stack # <<>>
    /\ thrown # Nothing
    /\ Top.node.type # "document"
    /\ thrown.kind = "fatal" \/ Top.node.type = "import"
    /\ stack' = Popped
    /\ store' = Kept(store, Below)
    /\ resolving' = IF Top.node.type \in {"include", "template"}
                    THEN resolving \ {Top.node.file} ELSE resolving
    /\ callstack' = IF Top.node.type \in {"phase", "call"}
                    THEN SubSeq(callstack, 1, Len(callstack) - 1) ELSE callstack
    /\ UNCHANGED <<source, completed, fallbacks, chosen, thrown>>

-----------------------------------------------------------------------------
(* execute *)

Document == [type |-> "document", file |-> Main]

Init ==
    /\ source \in Programs
    /\ \E request \in Requests :
          stack = <<Frame(Document, source[Main].nodes, Main, [t \in Tables |-> 1], request)>>
    /\ store = [t \in Tables |-> <<Blank(t)>>]
    /\ callstack = <<>>
    /\ resolving = {Main}
    /\ completed = {}
    /\ fallbacks = [e \in EnvNames |-> Unset]
    /\ chosen = NoPhase
    /\ thrown = Nothing

EndDocument ==
    /\ Done("document")
    /\ stack' = <<>>
    /\ resolving' = resolving \ {Main}
    /\ completed' = completed \cup {Main}
    /\ UNCHANGED <<source, store, callstack, fallbacks, chosen, thrown>>

Next ==
    \/ ExecuteSet \/ SetFromDirective \/ EndSet \/ ExecuteLabelled
    \/ HandleConditional \/ HandleSwitch \/ EndBlock
    \/ ExecuteForeach \/ BeginLoop \/ NextItem \/ EndForeach
    \/ HandlePhase \/ EndPhase \/ WalkTransition
    \/ WalkDefine \/ HandleCall \/ EndCall
    \/ WalkConnect \/ WalkEnv \/ WalkUnhandled
    \/ ExecuteInclude \/ EndInclude
    \/ ExecuteTemplate \/ EndTemplate
    \/ ExecuteImport \/ ImportEnv \/ ImportDefine \/ ImportConnect
    \/ ImportNothing \/ EndImport
    \/ Catch \/ Unwind
    \/ EndDocument

Spec == Init /\ [][Next]_vars

\* The walk is one synchronous JavaScript call: while it has a step it takes it.
FairSpec == Spec /\ WF_vars(Next)

-----------------------------------------------------------------------------
(* Properties *)

Activation ==
    [node : Nodes \cup {Document}, todo : Seq(Nodes), file : Files,
     ctx : [Tables -> Nat], phase : Phases \cup {NoPhase},
     items : Seq(Values), saved : Values \cup {Unset, Pending}]

\* What a table of kind t is.
Kind(t) == CASE t \in {"env", "data"} -> [Vars -> Values \cup {Unset}]
             [] t = "macros" -> [Macros -> {NoBody} \cup Seq(Nodes)]
             [] t = "conns"  -> [Conns -> [by : Files, local : BOOLEAN] \cup {Unset}]
             [] t = "locals" -> [Conns -> BOOLEAN]

TypeOK ==
    /\ source \in [Files -> Content]
    /\ stack \in Seq(Activation)
    /\ \A i \in 1..Len(stack), t \in Tables :
          stack[i].ctx[t] \in 1..Len(store[t])
    /\ DOMAIN store = Tables
    /\ \A t \in Tables : store[t] \in Seq(Kind(t))
    /\ callstack \in Seq(Nodes)
    /\ resolving \subseteq Files /\ completed \subseteq Files
    /\ fallbacks \in [EnvNames -> Values \cup {Unset}]
    /\ chosen \in Phases \cup {NoPhase}
    /\ thrown \in {Nothing, AnError} \cup
                  { Fatal(why, f) : why \in {"blocked", "cycle"}, f \in Files }

\* No file is ever being walked or imported twice at the same time, however
\* includes, templates, imports, loops and macro calls are nested, and
\* whatever an earlier failure left behind (engine-include.ts:95-157,
\* engine-template.ts:104-171).
NoReentry ==
    \A i, j \in 1..Len(stack) :
        (i # j /\ Opens(stack[i]) /\ Opens(stack[j]))
        => stack[i].node.file # stack[j].node.file

\* The activations that have an entry in the callstack.
OnCallstack == { i \in 1..Len(stack) : stack[i].node.type \in {"phase", "call"} }

\* The callstack the trace reports is exactly the open phases and calls, in
\* the order they were opened in, even after exceptions of any kind
\* (engine.ts:462-469 and 474-485).
CallstackTracks ==
    /\ Len(callstack) = Cardinality(OnCallstack)
    /\ \A i \in OnCallstack : callstack[Cardinality(OnCallstack \cap 1..i)] = stack[i].node

\* Until its last step and in it, a template changes no variable, value,
\* macro or connection of any context below it (engine-template.ts:136-171).
TemplateSandbox ==
    [][ \A j \in 1..Len(stack) :
          stack[j].node.type = "template" =>
            \A i \in 1..(j - 1), t \in Tables :
                store'[t][stack[i].ctx[t]] = store[t][stack[i].ctx[t]] ]_vars

\* Where a local connection can be seen, the file that declared it is still
\* being walked: it never outlives or escapes the file, through any nesting of
\* includes and templates (engine.ts:273, engine-include.ts:142-153).
LocalConnectionsStay ==
    \A i \in 1..Len(stack), c \in Conns :
        LET conn == store["conns"][stack[i].ctx["conns"]][c] IN
        (conn # Unset /\ conn.local)
        => \E j \in 1..i : Opens(stack[j]) /\ stack[j].node.file = conn.by

\* A walk that ends, in whatever way, takes with it what it marked and what was
\* local to it, and every activation refers to tables that exist.
FramesKeepTheirOwn == TypeOK /\ CallstackTracks /\ LocalConnectionsStay

\* The first transition that is walked stays the advice for the caller, and a
\* file the document includes or renders cannot give it, by its own phases or
\* through a macro (engine.ts:252-259, engine-include.ts:144).
OnlyTheDocumentAdvances ==
    [][ chosen' # chosen =>
          /\ chosen = NoPhase
          /\ \A i \in 1..Len(stack) : stack[i].node.type \notin {"include", "template"} ]_vars

\* Every execution ends: neither cycles of files nor a macro that calls itself
\* keep the engine busy for ever.
Terminates == <>(stack = <<>>)

\* The macros a file defines for whoever imports it.
Defined(f) == { source[f].nodes[i].name :
                  i \in { j \in 1..Len(source[f].nodes) : source[f].nodes[j].type = "define" } }

Rendering == \E i \in 1..Len(stack) : stack[i].node.type = "template"

\* An @import of a completed file is skipped, so a file must not count as
\* completed before its macros are known to the document: whether it was
\* included, imported by way of other files or executed, and whatever failed
\* in it, every macro it defines is there, and stays.  A file that is completed
\* while a template is rendered is the exception: its macros go with the
\* template (engine-include.ts:94, 118, 149).
CompletedIsDefined ==
    [][ /\ \A m \in Macros :
              store["macros"][1][m] # NoBody => store'["macros"][1][m] # NoBody
        /\ ~ Rendering =>
              \A f \in completed' \ completed :
                \A m \in Defined(f) : store'["macros"][1][m] # NoBody ]_vars

=============================================================================
