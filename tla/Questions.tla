------------------------------ MODULE Questions ------------------------------
(***************************************************************************)
(* A question to the operators: asked, edited, answered and resolved.         *)
(*                                                                         *)
(* The author edits, resolves or deletes it after a look at its status; an     *)
(* operator answers without one, and each answer makes it ANSWERED again; a    *)
(* daily job resolves what has been ANSWERED for a week without a change.     *)
(* Every write is by id and sets some columns.  Texts are versions.          *)
(***************************************************************************)
EXTENDS Integers, FiniteSets

CONSTANTS Users,       \* users that may read
          Author,      \* the one who asks
          Admin,       \* an operator
          Answers,     \* ids of answers
          Handlers,    \* the requests that can be on their way at once
          None,        \* no row, no request, no user
          MaxRequests, \* bound: requests in all
          MaxWeeks     \* bound: times a week passes

VARIABLES
  question, \* the row, or None
  answers,  \* per id: version of the question it answers, Deleted, or None
  request,  \* per handler: what it has read
  requests, \* counts the requests
  weeks,    \* counts the weeks
  replied,  \* ghost: version the last answer was written for
  raced     \* ghost: the status was written on one that had changed

Deleted == 0

vars == <<question, answers, request, requests, weeks, replied, raced>>

Init ==
  /\ question = None
  /\ answers = [a \in Answers |-> None]
  /\ request = [h \in Handlers |-> None]
  /\ requests = 0 /\ weeks = 0 /\ replied = 0 /\ raced = FALSE

NewRequest == requests < MaxRequests /\ requests' = requests + 1
Exists == question # None /\ ~question.deleted
Done(h) == request' = [request EXCEPT ![h] = None]
Read(h, kind, more) ==
  request' = [request EXCEPT ![h] =
    [kind |-> kind, status |-> question.status, text |-> question.text, more |-> more]]
Doing(h, kind) == request[h] # None /\ request[h].kind = kind

\* Every update sets updatedAt.
Touched(q) == [q EXCEPT !.old = FALSE]

Create(visibility) ==
  /\ question = None
  /\ NewRequest
  /\ question' = [status |-> "PENDING", visibility |-> visibility, text |-> 1,
                  deleted |-> FALSE, old |-> FALSE]
  /\ UNCHANGED <<answers, request, weeks, replied, raced>>

\* update: what the author sees of it; None leaves the visibility.
UpdateRead(h, visibility) ==
  /\ request[h] = None /\ Exists /\ question.status # "RESOLVED"
  /\ NewRequest
  /\ Read(h, "update", visibility)
  /\ UNCHANGED <<question, answers, weeks, replied, raced>>

\* Variant: an answered question is not reopened.
UpdateQuietly(h) ==
  /\ Doing(h, "update")
  /\ question' = Touched([question EXCEPT !.text = @ + 1])
  /\ Done(h)
  /\ UNCHANGED <<answers, requests, weeks, replied, raced>>

UpdateWrite(h) ==
  /\ Doing(h, "update")
  /\ LET r == request[h] IN
       /\ question' = Touched([question EXCEPT
            !.text = @ + 1,
            !.visibility = IF r.more = None THEN @ ELSE r.more,
            !.status = IF r.status = "ANSWERED" THEN "PENDING" ELSE @])
       /\ raced' = (raced \/ question.status # r.status)
  /\ Done(h)
  /\ UNCHANGED <<answers, requests, weeks, replied>>

\* remove: the row stays and is found no more.  Nothing read before matters.
Remove ==
  /\ Exists
  /\ NewRequest
  /\ question' = Touched([question EXCEPT !.deleted = TRUE])
  /\ UNCHANGED <<answers, request, weeks, replied, raced>>

ResolveRead(h) ==
  /\ request[h] = None /\ Exists /\ question.status = "ANSWERED"
  /\ NewRequest
  /\ Read(h, "resolve", None)
  /\ UNCHANGED <<question, answers, weeks, replied, raced>>

ResolveWrite(h) ==
  /\ Doing(h, "resolve")
  /\ question' = Touched([question EXCEPT !.status = "RESOLVED"])
  /\ raced' = (raced \/ question.status # "ANSWERED" \/ question.text # request[h].text)
  /\ Done(h)
  /\ UNCHANGED <<answers, requests, weeks, replied>>

\* createAnswer: the question as the operator sees it, whatever its status.
AnswerRead(h, a) ==
  /\ request[h] = None /\ Exists /\ answers[a] = None
  /\ \A o \in Handlers : Doing(o, "answer") => request[o].more # a
  /\ NewRequest
  /\ Read(h, "answer", a)
  /\ UNCHANGED <<question, answers, weeks, replied, raced>>

AnswerWrite(h) ==
  /\ Doing(h, "answer")
  /\ answers' = [answers EXCEPT ![request[h].more] = request[h].text]
  /\ question' = Touched([question EXCEPT !.status = "ANSWERED"])
  /\ replied' = request[h].text
  /\ raced' = (raced \/ question.text # request[h].text)
  /\ Done(h)
  /\ UNCHANGED <<requests, weeks>>

\* updateAnswer: the text of an answer, with the question before the operator.
UpdateAnswer(a) ==
  /\ answers[a] \notin {None, Deleted}
  /\ NewRequest
  /\ answers' = [answers EXCEPT ![a] = question.text]
  /\ UNCHANGED <<question, request, weeks, replied, raced>>

\* removeAnswer: the question keeps its status.
RemoveAnswer(a) ==
  /\ answers[a] \notin {None, Deleted}
  /\ NewRequest
  /\ answers' = [answers EXCEPT ![a] = Deleted]
  /\ UNCHANGED <<question, request, weeks, replied, raced>>

\* autoResolveOldAnsweredQuestions: one statement.
AutoResolve ==
  /\ Exists /\ question.status = "ANSWERED" /\ question.old
  /\ question' = Touched([question EXCEPT !.status = "RESOLVED"])
  /\ UNCHANGED <<answers, request, requests, weeks, replied, raced>>

Week ==
  /\ weeks < MaxWeeks /\ question # None /\ ~question.old
  /\ weeks' = weeks + 1
  /\ question' = [question EXCEPT !.old = TRUE]
  /\ UNCHANGED <<answers, request, requests, replied, raced>>

Next ==
  \/ \E v \in {"PUBLIC", "PRIVATE"} : Create(v)
  \/ \E h \in Handlers :
       \/ \E v \in {None, "PUBLIC", "PRIVATE"} : UpdateRead(h, v)
       \/ UpdateWrite(h) \/ ResolveRead(h) \/ ResolveWrite(h) \/ AnswerWrite(h)
       \/ \E a \in Answers : AnswerRead(h, a)
  \/ Remove \/ AutoResolve \/ Week
  \/ \E a \in Answers : UpdateAnswer(a) \/ RemoveAnswer(a)

Spec == Init /\ [][Next]_vars

-----------------------------------------------------------------------------
(* Reading.                                                                *)

All == {q \in {question} : Exists}

\* findQuestions: what a user, or None without login, gets for a filter; an error is {}.
FindQuestions(u, filter) ==
  CASE filter = "all"    -> IF u = Admin THEN All ELSE {}
    [] filter = "my"     -> {q \in All : u = Author}
    [] filter = "public" -> {q \in All : q.visibility = "PUBLIC"}

\* QuestionVisibilityGuard, for what the request carries as its user.
Visible(u) ==
  Exists /\ (question.visibility = "PUBLIC" \/ (u # None /\ u \in {Admin, Author}))

\* The detail is a public route: nobody is logged in there.
FindOne(u) == {q \in {question} : Visible(None)}

\* getStatistics: the numbers the operators see; RESOLVED is in the total alone.
Statistics ==
  [total |-> Cardinality(All),
   pending |-> Cardinality({q \in All : q.status = "PENDING"}),
   answered |-> Cardinality({q \in All : q.status = "ANSWERED"})]

Row ==
  [status : {"PENDING", "ANSWERED", "RESOLVED"}, visibility : {"PUBLIC", "PRIVATE"},
   text : Nat, deleted : BOOLEAN, old : BOOLEAN]

\* Nobody begins to edit a question that is resolved.
Request ==
  [kind : {"update"}, status : {"PENDING", "ANSWERED"}, text : Nat,
   more : {None, "PUBLIC", "PRIVATE"}]
  \cup [kind : {"resolve"}, status : {"ANSWERED"}, text : Nat, more : {None}]
  \cup [kind : {"answer"}, status : {"PENDING", "ANSWERED", "RESOLVED"}, text : Nat,
        more : Answers]

ConstantsAssumption ==
  /\ None \notin Row \cup Request \cup Nat
  /\ MaxRequests \in Nat /\ MaxWeeks \in Nat

TypeOK ==
  /\ question \in {None} \cup Row
  /\ answers \in [Answers -> {None} \cup Nat]
  /\ request \in [Handlers -> {None} \cup Request]
  /\ requests \in 0..MaxRequests /\ weeks \in 0..MaxWeeks
  /\ replied \in Nat /\ raced \in BOOLEAN

\* A question that counts as answered or resolved was answered as it now reads, unless
\* an edit, an answer or a resolution went through on a status or text that had
\* changed; and no reader but its author and the operators ever gets a private one
\* (update reopens an answered question; the job and resolve close only answered ones).
AnswersFitQuestion ==
  /\ Exists /\ question.status # "PENDING" => replied = question.text \/ raced
  /\ Exists /\ question.visibility = "PRIVATE" =>
       \A u \in (Users \cup {None}) \ {Author, Admin} :
         /\ FindOne(u) = {}
         /\ \A f \in {"all", "my", "public"} : FindQuestions(u, f) = {}
  /\ Statistics.pending + Statistics.answered <= Statistics.total

=============================================================================
