------------------------------ MODULE Community ------------------------------
(***************************************************************************)
(* Comments and searches over the platform client: comments.go,            *)
(* comments_create.go and discovery.go of internal/app, and what the       *)
(* adapter makes of a failed write (provider/comments_create.go).          *)
(*                                                                         *)
(* A call of the bridge is named like the request it makes: op says what   *)
(* the service is doing with it, call of Client where its request is.      *)
(***************************************************************************)
EXTENDS Client

CONSTANTS
  Api,           \* the host they all go to
  Account, Guest,
  Click,         \* clicks on the send button, each with a request id of its own
  Comment,       \* comments of one episode
  Parent,        \* the comment that heads the thread of each
  AttemptLimit,  \* maxCommentAttempts, 4096 in the code
  MaxGeneration, \* bound on the page's search generations
  MaxEpoch       \* bound on session epochs

ASSUME CommunityAssumption ==
  /\ Api \in Host /\ Guest \notin Account
  /\ Parent \in [Comment -> Comment] /\ None \notin Comment
  /\ \A m \in Comment : Parent[Parent[m]] = Parent[m]
  /\ AttemptLimit \in Nat \ {0} /\ MaxGeneration \in Nat /\ MaxEpoch \in Nat \ {0}

VARIABLES
  epoch, account,           \* the session
  commentEpoch, attempts, busy,
  readEpoch, targets,       \* commentTargets: comments that may be answered
  searchEpoch, generation,
  op,                       \* what the service does with each call
  clicked,                  \* the epoch a click belongs to, 0 before it
  sent, posted, told,       \* history: see the properties
  seen,                     \* history: comments read in this epoch
  given                     \* history: the last search answered in this epoch

serviceVars == <<epoch, account, commentEpoch, attempts, busy, readEpoch, targets, searchEpoch,
                 generation>>
historyVars == <<clicked, sent, posted, told, seen, given>>
vars == <<clientVars, serviceVars, op, historyVars>>

Op ==
  [kind : {"none", "comment", "search", "read"}, stage : {"admitted", "calling"}, epoch : Nat,
   click : Click \cup {None}, target : Comment \cup {None}, generation : Nat]

NoOp == [kind |-> "none", stage |-> "admitted", epoch |-> 0, click |-> None, target |-> None,
         generation |-> 0]

TypeOK ==
  /\ ClientTypeOK
  /\ epoch \in 1..MaxEpoch /\ account \in Account \cup {Guest}
  /\ commentEpoch \in 0..MaxEpoch /\ attempts \subseteq Click /\ busy \in BOOLEAN
  /\ readEpoch \in 0..MaxEpoch /\ targets \subseteq Comment
  /\ searchEpoch \in 0..MaxEpoch /\ generation \in 0..MaxGeneration
  /\ op \in [Call -> Op]
  /\ clicked \in [Click -> 0..MaxEpoch]
  /\ sent \in [Click -> Nat] /\ posted \subseteq Click
  /\ told \in [Click -> {"nothing", "posted", "uncertain", "refused"}]
  /\ seen \subseteq Comment /\ given \in 0..MaxGeneration

Init ==
  /\ ClientInit
  /\ epoch = 1 /\ account \in Account
  /\ commentEpoch = 0 /\ attempts = {} /\ busy = FALSE
  /\ readEpoch = 0 /\ targets = {}
  /\ searchEpoch = 0 /\ generation = 0
  /\ op = [c \in Call |-> NoOp]
  /\ clicked = [k \in Click |-> 0]
  /\ sent = [k \in Click |-> 0] /\ posted = {} /\ told = [k \in Click |-> "nothing"]
  /\ seen = {} /\ given = 0

AtEpoch(c) == epoch = op[c].epoch

Done(c) == call' = [call EXCEPT ![c] = NoRequest] /\ op' = [op EXCEPT ![c] = NoOp]

Calling(c) == op' = [op EXCEPT ![c].stage = "calling"]

---------------------------------------------------------------------------
(* Writing a comment, or a reply to target.                                *)

IsTarget(m) == m # None => readEpoch = epoch /\ {m, Parent[m]} \subseteq targets

OfEpoch(S) == IF commentEpoch = epoch THEN S ELSE {}

Admits(click) ==
  /\ click \notin OfEpoch(attempts)
  /\ ~(commentEpoch = epoch /\ busy)
  /\ Cardinality(OfEpoch(attempts)) < AttemptLimit

(* One click may arrive twice; a click after a new epoch is another click. *)
AdmitComment(c, click, target) ==
  /\ op[c].kind = "none" /\ account # Guest
  /\ clicked[click] \in {0, epoch}
  /\ IsTarget(target)
  /\ Admits(click)
  /\ commentEpoch' = epoch
  /\ attempts' = OfEpoch(attempts) \cup {click}
  /\ busy' = TRUE
  /\ clicked' = [clicked EXCEPT ![click] = epoch]
  /\ op' = [op EXCEPT ![c] = [NoOp EXCEPT
       !.kind = "comment", !.epoch = epoch, !.click = click, !.target = target]]
  /\ UNCHANGED <<clientVars, epoch, account, readEpoch, targets, searchEpoch, generation, sent,
                 posted, told, seen, given>>

(* Whichever epoch the call is of.                                         *)
ReleaseAnyEpoch(c) == busy' = FALSE

(* Deferred: a call of an older epoch leaves the ledger of this one alone. *)
ReleaseComment(c) == busy' = IF commentEpoch = op[c].epoch THEN FALSE ELSE busy

(* DoOnceAt: one request in the epoch of the click, or none.               *)
CallComment(c) ==
  /\ op[c].kind = "comment" /\ op[c].stage = "admitted"
  /\ \/ AtEpoch(c) /\ Calling(c) /\ RequestBegins(c, Api, FALSE) /\ UNCHANGED busy
     \/ Done(c) /\ ReleaseComment(c) /\ UNCHANGED <<slots, cooldown, exempt>>
  /\ UNCHANGED <<epoch, account, commentEpoch, attempts, readEpoch, targets, searchEpoch,
                 generation, historyVars>>

(* A cancelled call counts as one that was not made.                       *)
UncertainUnlessCancelled == {"NETWORK", "UPSTREAM", "BAD_RESPONSE", "REDIRECT_BLOCKED"}

(* Failures after which the comment may be there all the same.             *)
Uncertain == {"NETWORK", "CANCELLED", "UPSTREAM", "BAD_RESPONSE", "REDIRECT_BLOCKED"}

(* An answer that does not show this account's comment, in its place, is   *)
(* as uncertain as none.                                                   *)
Outcomes(code) ==
  IF code = "OK" THEN {"posted", "uncertain"}
  ELSE IF code \in Uncertain THEN {"uncertain"} ELSE {"refused"}

FinishComment(c) ==
  /\ op[c].kind = "comment" /\ op[c].stage = "calling" /\ call[c].phase = "done"
  /\ IF AtEpoch(c)
     THEN \E outcome \in Outcomes(call[c].code) : told' = [told EXCEPT ![op[c].click] = outcome]
     ELSE UNCHANGED told              \* the caller learns only that it is stale
  /\ ReleaseComment(c)
  /\ Done(c)
  /\ UNCHANGED <<slots, cooldown, exempt, epoch, account, commentEpoch, attempts, readEpoch,
                 targets, searchEpoch, generation, clicked, sent, posted, seen, given>>

---------------------------------------------------------------------------
(* Searching.  Each page of a search has a newer generation than the last. *)

Newer(g) == searchEpoch # epoch \/ g > generation

AdmitSearch(c, g) ==
  /\ op[c].kind = "none" /\ account # Guest
  /\ Newer(g)
  /\ searchEpoch' = epoch /\ generation' = g
  /\ op' = [op EXCEPT ![c] = [NoOp EXCEPT !.kind = "search", !.epoch = epoch, !.generation = g]]
  /\ UNCHANGED <<clientVars, epoch, account, commentEpoch, attempts, busy, readEpoch, targets,
                 historyVars>>

(* DoAt: reads are for the epoch they were asked in.                       *)
CallSearch(c) ==
  /\ op[c].kind = "search" /\ op[c].stage = "admitted"
  /\ \/ AtEpoch(c) /\ Calling(c) /\ RequestBegins(c, Api, TRUE)
     \/ ~AtEpoch(c) /\ Done(c) /\ UNCHANGED <<slots, cooldown, exempt>>
  /\ UNCHANGED <<serviceVars, historyVars>>

(* The account is the same, though the search may be another.              *)
WantedByAccount(c) == AtEpoch(c)

Wanted(c) == AtEpoch(c) /\ searchEpoch = epoch /\ generation = op[c].generation

(* Given to the page if it is still the search it wants; a page the        *)
(* service will not take is refused instead.                               *)
FinishSearch(c) ==
  /\ op[c].kind = "search" /\ op[c].stage = "calling" /\ call[c].phase = "done"
  /\ \/ call[c].code = "OK" /\ Wanted(c) /\ given' = op[c].generation
     \/ UNCHANGED given
  /\ Done(c)
  /\ UNCHANGED <<slots, cooldown, exempt, serviceVars, clicked, sent, posted, told, seen>>

---------------------------------------------------------------------------
(* Reading comments: the episode's, or the thread under target.            *)

ReadComments(c, target) ==
  /\ op[c].kind = "none" /\ account # Guest
  /\ target # None => Parent[target] = target
  /\ op' = [op EXCEPT ![c] = [NoOp EXCEPT
       !.kind = "read", !.stage = "calling", !.epoch = epoch, !.target = target]]
  /\ RequestBegins(c, Api, TRUE)
  /\ UNCHANGED <<serviceVars, historyVars>>

PageOf(target) ==
  IF target = None THEN {m \in Comment : Parent[m] = m}
                   ELSE {m \in Comment : Parent[m] = target /\ m # target}

(* What earlier accounts have read stays.                                  *)
IndexKept(page) == targets \cup page

Index(page) == (IF readEpoch = epoch THEN targets ELSE {}) \cup page

FinishRead(c) ==
  /\ op[c].kind = "read" /\ call[c].phase = "done"
  /\ \/ /\ call[c].code = "OK" /\ AtEpoch(c)
        /\ \E page \in SUBSET PageOf(op[c].target) :
             /\ readEpoch' = epoch
             /\ targets' = Index(page)
             /\ seen' = seen \cup page
     \/ /\ call[c].code # "OK" \/ ~AtEpoch(c)
        /\ UNCHANGED <<readEpoch, targets, seen>>
  /\ Done(c)
  /\ UNCHANGED <<slots, cooldown, exempt, epoch, account, commentEpoch, attempts, busy,
                 searchEpoch, generation, clicked, sent, posted, told, given>>

---------------------------------------------------------------------------
(* The request under way, and what the platform did with a comment.  It    *)
(* has not posted what it answers with a refusal.                          *)

Comments(c) == op[c].kind = "comment"

GoOut(c) ==
  /\ Send(c)
  /\ sent' = IF Comments(c) THEN [sent EXCEPT ![op[c].click] = @ + 1] ELSE sent
  /\ UNCHANGED <<serviceVars, op, clicked, posted, told, seen, given>>

Post(c) == posted' = IF Comments(c) THEN posted \cup {op[c].click} ELSE posted

MayPost == {"BAD_RESPONSE", "REDIRECT_BLOCKED"}

PlatformAnswers(c) ==
  /\ \/ (Lost(c) \/ ServerError(c)) /\ (Post(c) \/ UNCHANGED posted)
     \/ TooMany(c) /\ UNCHANGED posted
     \/ \E verdict \in Verdicts :
          /\ Answer(c, verdict)
          /\ \/ verdict \in MayPost \cup {"OK"} /\ Post(c)
             \/ verdict # "OK" /\ UNCHANGED posted
  /\ UNCHANGED <<serviceVars, op, clicked, sent, told, seen, given>>

---------------------------------------------------------------------------
(* Changes of account.                                                     *)

NewEpoch(who) ==
  /\ epoch < MaxEpoch /\ epoch' = epoch + 1 /\ account' = who
  /\ seen' = {} /\ given' = 0
  /\ UNCHANGED <<clientVars, op, clicked, sent, posted, told>>

(* clearTransientLocked                                                    *)
Leave ==
  /\ NewEpoch(Guest)
  /\ commentEpoch' = 0 /\ attempts' = {} /\ busy' = FALSE
  /\ readEpoch' = 0 /\ targets' = {}
  /\ searchEpoch' = 0 /\ generation' = 0

Join(who) ==
  /\ NewEpoch(who)
  /\ UNCHANGED <<commentEpoch, attempts, busy, readEpoch, targets, searchEpoch, generation>>

ServiceStep(c) ==
  \/ \E click \in Click, target \in Comment \cup {None} : AdmitComment(c, click, target)
  \/ \E g \in 1..MaxGeneration : AdmitSearch(c, g)
  \/ \E target \in Comment \cup {None} : ReadComments(c, target)
  \/ CallComment(c) \/ FinishComment(c)
  \/ CallSearch(c) \/ FinishSearch(c)
  \/ FinishRead(c)
  \/ GoOut(c) \/ PlatformAnswers(c)

Next ==
  \/ \E c \in Call : ServiceStep(c)
  \/ \E c \in Call : ClientStep(c) /\ UNCHANGED <<serviceVars, op, historyVars>>
  \/ Second /\ UNCHANGED <<serviceVars, op, historyVars>>
  \/ Leave
  \/ \E who \in Account : Join(who)

Spec == Init /\ [][Next]_vars

---------------------------------------------------------------------------
(* A comment goes out at most once per click: neither a second delivery of *)
(* the click, nor the client's retries, nor a change of account repeats it.*)
SentOnce == \A k \in Click : sent[k] <= 1

(* The listener is told that a comment was refused only when it is not     *)
(* there, and that it is posted only when it is.                           *)
NeverDeniesWhatWasPosted ==
  \A k \in Click :
    /\ told[k] = "refused" => k \notin posted
    /\ told[k] = "posted" => k \in posted

(* The service is busy with a comment exactly while one call of this epoch *)
(* is: an earlier account's call neither keeps nor frees it.               *)
BusyIsAtWork ==
  Cardinality({c \in Call : Comments(c) /\ AtEpoch(c)}) = IF commentEpoch = epoch /\ busy THEN 1 ELSE 0

(* A page of results never replaces that of a newer search.                *)
SearchesAnswerInOrder == [][epoch' = epoch => given' >= given]_vars

(* Replies answer comments that this account has read since it connected.  *)
TargetsWereRead == readEpoch = epoch => targets \subseteq seen

(* What goes out, goes out once, one at a time, and to a comment that this *)
(* account has read: all of these.                                         *)
CommentsAreOrderly == SentOnce /\ BusyIsAtWork /\ TargetsWereRead
=============================================================================
