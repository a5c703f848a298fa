------------------------------ MODULE WriteOps ------------------------------
(***************************************************************************)
(* The write directives of the engine, write-ops.ts, on one file.          *)
(*                                                                         *)
(* Inside a render they run one after the other.  Several renders run at   *)
(* once (every client has its own server, and there is the CLI), and each  *)
(* directive first looks at the file and then writes it with calls of      *)
(* node:fs that are not one step for anybody else: writeFileSync and       *)
(* copyFileSync empty the file when they open it.                          *)
(*                                                                         *)
(* AppendToMissing and UpdateWithoutBlock are mutants of the definitions   *)
(* that follow them.                                                       *)
(***************************************************************************)
EXTENDS Frontmatter

CONSTANTS
  Renders,    \* the renders that run at the same time
  Scenarios,  \* what is on disk, and the directives of each render in order
  Template    \* the file that @copy copies

VARIABLES
  given,      \* what was on disk
  file,       \* the file at the path the directives name
  todo,       \* the directives each render has yet to execute
  calls,      \* the directive each render is in the middle of
  killed      \* the renders that died with the file open for writing

vars == <<given, file, todo, calls, killed>>

-----------------------------------------------------------------------------
(* Files: no frontmatter block is the empty body.  The rest of a document  *)
(* is the texts appended to it.                                            *)
File(body, text) == [is |-> "file", body |-> body, text |-> text]
Absent    == [is |-> "absent", body |-> <<>>, text |-> <<>>]
Directory == [is |-> "directory", body |-> <<>>, text |-> <<>>]
Empty     == File(<<>>, <<>>)

\* What stays of a longer content when a shorter one is written over it.
Remains == "remains"

Files == [is : {"file"}, body : Seq(Lines), text : Seq(Texts \cup {Remains})] \cup {Absent, Directory}

-----------------------------------------------------------------------------
(* Directives                                                              *)
Directive(do, text, u) == [do |-> do, text |-> text, u |-> u]
NoUpdate           == Set(None, None)
Mkdir              == Directive("mkdir", None, NoUpdate)
Touch              == Directive("touch", None, NoUpdate)
Copy               == Directive("copy", None, NoUpdate)
CopyIfMissing      == Directive("copy if-missing", None, NoUpdate)
AppendIfMissing(t) == Directive("append", t, NoUpdate)
Update(u)          == Directive("update", None, u)
Forbidden          == Directive("forbidden", None, NoUpdate)

Directives ==
  [do : {"mkdir", "touch", "copy", "copy if-missing", "append", "update", "forbidden"},
   text : Texts, u : Requests]

ASSUME ScenariosAreWork ==
  /\ \A s \in Scenarios : s.file \in Files /\ s.todo \in [Renders -> Seq(Directives)]
  /\ Template \in Files /\ Template.is = "file"

-----------------------------------------------------------------------------
(* Calls: `seen` is the file as the directive found it, `new` what it will *)
(* make of it.                                                             *)
Call(at, what, new) == [at |-> at, what |-> what, seen |-> file, new |-> new]
Idle == [at |-> "idle", what |-> Forbidden, seen |-> Absent, new |-> Absent]

Next1(r) == Head(todo[r])
Starts(r, do) == calls[r].at = "idle" /\ todo[r] # <<>> /\ Next1(r).do = do

\* The directive is through, without a step that writes.
Return(r) == todo' = [todo EXCEPT ![r] = Tail(@)] /\ UNCHANGED calls

GoOn(r, at, new) ==
  /\ todo' = [todo EXCEPT ![r] = Tail(@)]
  /\ calls' = [calls EXCEPT ![r] = Call(at, Next1(r), new)]

In(r, at) == calls[r].at = at

Finish(r) == calls' = [calls EXCEPT ![r] = Idle] /\ UNCHANGED todo

-----------------------------------------------------------------------------
\* Writing is not enabled, or the path is not one that may be written.
ResolveWritePath(r) ==
  /\ Starts(r, "forbidden") /\ Return(r)
  /\ UNCHANGED <<given, file, killed>>

ExecuteMkdir(r) ==
  /\ Starts(r, "mkdir") /\ Return(r)
  /\ file' = IF file.is = "absent" THEN Directory ELSE file
  /\ UNCHANGED <<given, killed>>

ExecuteTouch(r) ==
  /\ Starts(r, "touch")
  /\ IF file.is = "absent" THEN GoOn(r, "create", Empty) ELSE Return(r)
  /\ UNCHANGED <<given, file, killed>>

\* writeFileSync of nothing.
Create(r) ==
  /\ In(r, "create") /\ Finish(r)
  /\ file' = IF file.is = "directory" THEN file ELSE Empty
  /\ UNCHANGED <<given, killed>>

ExecuteCopy(r) ==
  /\ \/ Starts(r, "copy") /\ GoOn(r, "open", Template)
     \/ /\ Starts(r, "copy if-missing")
        /\ IF file.is = "absent" THEN GoOn(r, "open", Template) ELSE Return(r)
  /\ UNCHANGED <<given, file, killed>>

Includes(f, text) == \E i \in DOMAIN f.text : f.text[i] = text

ExecuteAppendIfMissing(r) ==
  /\ Starts(r, "append")
  /\ IF file.is = "file" /\ ~Includes(file, Next1(r).text)
     THEN GoOn(r, "append", file) ELSE Return(r)
  /\ UNCHANGED <<given, file, killed>>

\* appendFileSync adds to whatever the file holds by now.
AppendText(r) ==
  /\ In(r, "append") /\ Finish(r)
  /\ file' = [file EXCEPT !.text = Append(@, calls[r].what.text)]
  /\ UNCHANGED <<given, killed>>

UpdateWithoutBlock(r) ==
  /\ Starts(r, "update")
  /\ LET new == [file EXCEPT !.body = Updated(@, Next1(r).u)]
     IN IF file.is = "file" /\ new # file THEN GoOn(r, "open", new) ELSE Return(r)
  /\ UNCHANGED <<given, file, killed>>

ExecuteUpdateFrontmatter(r) ==
  /\ Starts(r, "update")
  /\ LET new == [file EXCEPT !.body = Updated(@, Next1(r).u)]
     IN IF file.body # <<>> /\ new # file THEN GoOn(r, "open", new) ELSE Return(r)
  /\ UNCHANGED <<given, file, killed>>

\* writeFileSync and copyFileSync, first half: the file is cut to nothing.
OpenForWriting(r) ==
  /\ In(r, "open")
  /\ IF file.is = "directory" THEN Finish(r) /\ UNCHANGED file
     ELSE /\ file' = Empty
          /\ calls' = [calls EXCEPT ![r].at = "write"]
          /\ UNCHANGED todo
  /\ UNCHANGED <<given, killed>>

\* Second half.  What others have put there meanwhile shows at the end if
\* it is longer.
WriteContent(r) ==
  /\ In(r, "write") /\ Finish(r)
  /\ \/ file' = calls[r].new
     \/ file # Empty /\ file' = [calls[r].new EXCEPT !.text = Append(@, Remains)]
  /\ UNCHANGED <<given, killed>>

\* The process of a render ends.
Kill(r) ==
  /\ ~In(r, "idle")
  /\ killed' = IF In(r, "write") THEN killed \cup {r} ELSE killed
  /\ calls' = [calls EXCEPT ![r] = Idle]
  /\ todo' = [todo EXCEPT ![r] = <<>>]
  /\ UNCHANGED <<given, file>>

-----------------------------------------------------------------------------
Init ==
  /\ \E s \in Scenarios : given = s.file /\ todo = s.todo
  /\ file = given
  /\ calls = [r \in Renders |-> Idle]
  /\ killed = {}

Next ==
  \E r \in Renders :
    \/ ResolveWritePath(r) \/ ExecuteMkdir(r) \/ ExecuteTouch(r) \/ Create(r)
    \/ ExecuteCopy(r) \/ ExecuteAppendIfMissing(r) \/ AppendText(r)
    \/ ExecuteUpdateFrontmatter(r) \/ OpenForWriting(r) \/ WriteContent(r)
    \/ Kill(r)

Spec == Init /\ [][Next]_vars

-----------------------------------------------------------------------------
(* Properties *)

TypeOK ==
  /\ given \in Files /\ file \in Files
  /\ todo \in [Renders -> Seq(Directives)]
  /\ calls \in [Renders -> [at : {"idle", "create", "open", "write", "append"},
                            what : Directives, seen : Files, new : Files]]
  /\ \A r \in Renders : In(r, "append") => file.is = "file"
  /\ \A r \in Renders : In(r, "open") \/ In(r, "write") => calls[r].new.is = "file"
  /\ killed \subseteq Renders

Names(b)  == {b[i].name : i \in {j \in DOMAIN b : b[j].k = "field"}}
Updating(r) == In(r, "open") /\ calls[r].what.do = "update"

\* "Does not touch any other frontmatter fields or document body": whatever
\* update-frontmatter is asked for, every other field reads as before, and
\* no field comes or goes but its own.
OthersKept ==
  \A r \in Renders : Updating(r) =>
    LET c == calls[r]
    IN /\ c.new.text = c.seen.text
       /\ Names(c.new.body) = Names(c.seen.body) \cup {c.what.u.name}
       /\ \A name \in Names(c.seen.body) \ {c.what.u.name} :
            Reading(c.new.body, name) = Reading(c.seen.body, name)

\* The items a list update should leave behind, by what the reader says.
Wanted(items, u) ==
  IF u.op = "append" THEN items \cup {<<Cardinality(items), None, u.text>>}
  ELSE {t \in items : t[1] # u.n} \cup {<<u.n, None, u.text>>}

WroteBracket(b, u) == Has(b, u.name) /\ b[Anchor(b, u.name)].text = "[]"

\* What update-frontmatter writes, read-frontmatter reads: a scalar, an item
\* added at the end, an item replaced where it was.  A list written as `[]`
\* is excepted.
ReadsBack ==
  \A r \in Renders : Updating(r) =>
    LET c == calls[r]
        u == c.what.u
        now == Reading(c.new.body, u.name)
        was == Reading(c.seen.body, u.name)
    IN CASE u.op = "set" -> now.text = u.text
         [] u.op # "set" /\ u.sub = None /\ ~WroteBracket(c.seen.body, u) ->
              now = [text |-> None, items |-> Wanted(was.items, u)]
         [] OTHER -> TRUE

\* "Idempotent: running twice with the same value produces no observable
\* change", for fields, items and sub-fields alike.
Idempotent ==
  \A r \in Renders : Updating(r) /\ calls[r].what.u.op # "append" =>
    Updated(calls[r].new.body, calls[r].what.u) = calls[r].new.body

\* An update does what it says and nothing else, once and for all, over lists
\* of scalars and mappings, nested and empty (write-ops.ts:180-330).
UpdatesAreExact == OthersKept /\ ReadsBack /\ Idempotent

\* A document never loses the fields it had, unless a render died while it
\* had the file open: no directive builds on the emptied file it finds in
\* the middle of somebody else's write.
FieldsSurvive ==
  given.is = "file" /\ killed = {} /\ (\A r \in Renders : ~In(r, "write")) =>
    Names(given.body) \cap Names(Template.body) \subseteq Names(file.body)

=============================================================================
