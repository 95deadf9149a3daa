----------------------------- MODULE AiRequests -----------------------------
(***************************************************************************)
(* How one user asks the AI about one PRD, in several tabs at once:        *)
(* messages to the coach (AiCoachConversationService), the analysis of a   *)
(* board (BrainstormAiRequestService), diagnoses from several points of    *)
(* view and the synthesis of them (PrdEvaluationService and                *)
(* PrdEvaluationSynthesisService).  A request reads first and files its    *)
(* job later (AiJobService.enqueue); in between other requests, the worker *)
(* and the clean-up go on.  AiJobQueue has the life of a job.              *)
(***************************************************************************)
EXTENDS Integers, Sequences, FiniteSets

CONSTANTS Tabs,            (* the open pages                                 *)
          Keys,            (* idempotency keys                               *)
          Boards,          (* versions of the board                          *)
          Personas,        (* the points of view of a diagnosis              *)
          NoJob,           (* no job                                         *)
          DailyLimit,      (* jobs of a feature in a day                     *)
          MaxJobs,         (* bound: jobs in all, within one day             *)
          MaxText,         (* bound: the last version of the text            *)
          MaxConversations (* bound: conversations in all                    *)

ASSUME PersonaAssumption == IsFiniteSet(Personas) /\ Personas # {}
ASSUME BoundAssumption ==
    {DailyLimit, MaxJobs, MaxText, MaxConversations} \subseteq Nat \ {0}
ASSUME NoJobAssumption == NoJob \notin Nat

VARIABLES text,     (* the version of the questions and notes                *)
          jobs,     (* the jobs in the order of their creation               *)
          conv,     (* the conversation of the user about one section        *)
          made,     (* how many conversations there have been                *)
          swept,    (* what the clean-up has read as expired                 *)
          request   (* tab -> its request under way                          *)

requestVars == <<text, jobs, conv, made, swept, request>>
-----------------------------------------------------------------------------
Features == {"chat", "analysis", "evaluation", "synthesis"}
JobIds == 1..MaxJobs
Conversations == 1..MaxConversations
Nothing == [kind |-> "none"]

(* What a job is about - a conversation, a board, a persona - the version  *)
(* of the text it is given and the diagnoses it brings together.  "stale"  *)
(* says that the window of duplicates has passed; "retried" is no column.  *)
Job == [feature : Features, key : Keys, about : Conversations \cup Boards \cup Personas \cup {NoJob},
        text : 1..MaxText, from : SUBSET JobIds,
        status : {"active", "succeeded", "failed", "cancelled"},
        stale : BOOLEAN, retried : BOOLEAN]
Conversation ==
    [id : Conversations, expired : BOOLEAN,
     messages : Seq([role : {"user", "assistant"}, job : JobIds])]

(* "seen" is the conversation as the request read it, "todo" the diagnoses *)
(* whose text it has not compared with the present one yet.                *)
Request == [feature : Features, key : Keys, text : 1..MaxText,
            about : {NoJob} \cup Boards \cup Personas,
            seen : {Nothing} \cup [id : Conversations, expired : BOOLEAN],
            from : SUBSET JobIds, todo : SUBSET JobIds]

(* A key is used once per feature: the unique constraint of the table.     *)
KeysAreUnique ==
    \A i, j \in DOMAIN jobs :
        jobs[i].feature = jobs[j].feature /\ jobs[i].key = jobs[j].key => i = j

RequestsTypeOK ==
    /\ text \in 1..MaxText
    /\ jobs \in Seq(Job) /\ Len(jobs) <= MaxJobs /\ KeysAreUnique
    /\ conv = Nothing \/ conv \in Conversation
    /\ made \in 0..MaxConversations
    /\ swept \in {Nothing} \cup [id : Conversations]
    /\ request \in [Tabs -> {Nothing} \cup Request]

RequestsInit ==
    /\ text = 1
    /\ jobs = <<>>
    /\ conv = Nothing
    /\ made = 0
    /\ swept = Nothing
    /\ request = [t \in Tabs |-> Nothing]

JobsOf(feature) == {i \in DOMAIN jobs : jobs[i].feature = feature}
ByKey(feature, key) == {i \in JobsOf(feature) : jobs[i].key = key}
IsActive(i) == jobs[i].status = "active"
Newest(ids) == CHOOSE i \in ids : \A j \in ids : j <= i

Idle(t) == request[t] = Nothing
Begin(t, r) == request' = [request EXCEPT ![t] = r]
Answer(t) == request' = [request EXCEPT ![t] = Nothing]
Asking(feature, key) ==
    [feature |-> feature, key |-> key, text |-> text, about |-> NoJob,
     seen |-> Nothing, from |-> {}, todo |-> {}]
-----------------------------------------------------------------------------
(* AiJobService.enqueue under the lock of the PRD.  A recent job with the  *)
(* same content or an older one with the same key - found by the unique    *)
(* constraint at the latest - is the answer; else a new job, within the    *)
(* daily limit.                                                            *)
Twins(r) ==
    {i \in JobsOf(r.feature) : ~jobs[i].stale /\ jobs[i].about = r.about
        /\ jobs[i].text = r.text /\ jobs[i].from = r.from}
Found(r) == IF Twins(r) # {} THEN Twins(r) ELSE ByKey(r.feature, r.key)

MayFile(r) == Cardinality(JobsOf(r.feature)) < DailyLimit /\ Len(jobs) < MaxJobs

NewJob(r) ==
    [feature |-> r.feature, key |-> r.key, about |-> r.about, text |-> r.text,
     from |-> r.from, status |-> "active", stale |-> FALSE, retried |-> FALSE]

Enqueue(t) ==
    /\ request[t] # Nothing
    /\ LET r == request[t] IN
        /\ r.feature # "chat" /\ r.todo = {}
        /\ IF Found(r) # {} THEN jobs' = jobs
           ELSE MayFile(r) /\ jobs' = Append(jobs, NewJob(r))
    /\ Answer(t)
    /\ UNCHANGED <<text, conv, made, swept>>

(* A limit, an empty board, an error.                                      *)
GiveUp(t) ==
    /\ request[t] # Nothing /\ Answer(t)
    /\ UNCHANGED <<text, jobs, conv, made, swept>>
-----------------------------------------------------------------------------
(* The coach.                                                              *)
AskCoach(t, key) ==
    /\ Idle(t) /\ ByKey("chat", key) = {}
    /\ Begin(t, [Asking("chat", key) EXCEPT !.seen =
         IF conv = Nothing THEN Nothing ELSE [id |-> conv.id, expired |-> conv.expired]])
    /\ UNCHANGED <<text, jobs, conv, made, swept>>

(* get_or_create_locked: a conversation that was read as expired is        *)
(* deleted, whatever has become of it since; one that was read as usable   *)
(* must still be there.                                                    *)
Kept(seen) ==
    IF seen # Nothing /\ seen.expired /\ conv # Nothing /\ conv.id = seen.id
    THEN Nothing ELSE conv

Open(seen) ==
    IF seen # Nothing /\ ~seen.expired THEN conv
    ELSE IF Kept(seen) # Nothing THEN conv
    ELSE [id |-> made + 1, expired |-> FALSE, messages |-> <<>>]

Usable(seen) ==
    IF seen # Nothing /\ ~seen.expired THEN conv # Nothing /\ conv.id = seen.id
    ELSE Kept(seen) # Nothing \/ made < MaxConversations

Said(c, role, i) ==
    [c EXCEPT !.messages = Append(@, [role |-> role, job |-> i]), !.expired = FALSE]

(* With the conversation locked the key is looked for once more.           *)
SendToCoach(t) ==
    /\ request[t] # Nothing /\ request[t].feature = "chat"
    /\ LET r == request[t]
           c == Open(r.seen) IN
        /\ Usable(r.seen)
        /\ made' = IF c = conv THEN made ELSE c.id
        /\ IF ByKey("chat", r.key) # {} THEN conv' = c /\ jobs' = jobs
           ELSE /\ MayFile(r)
                /\ conv' = Said(c, "user", Len(jobs) + 1)
                /\ jobs' = Append(jobs, NewJob([r EXCEPT !.about = c.id, !.text = text]))
    /\ Answer(t)
    /\ UNCHANGED <<text, swept>>

(* Thirty days without a message.                                          *)
Expire ==
    /\ conv # Nothing /\ \A i \in JobsOf("chat") : ~IsActive(i)
    /\ conv' = [conv EXCEPT !.expired = TRUE]
    /\ UNCHANGED <<text, jobs, made, swept, request>>

(* delete_expired_conversations reads, and deletes what it has read.       *)
CollectExpired ==
    /\ swept = Nothing /\ conv # Nothing /\ conv.expired
    /\ swept' = [id |-> conv.id]
    /\ UNCHANGED <<text, jobs, conv, made, request>>

DeleteCollected ==
    /\ swept # Nothing
    /\ conv' = IF conv # Nothing /\ conv.id = swept.id THEN Nothing ELSE conv
    /\ swept' = Nothing
    /\ UNCHANGED <<text, jobs, made, request>>
-----------------------------------------------------------------------------
(* The analysis of a board.  From the look for an unfinished one, of       *)
(* whatever board, until the job is filed the board is locked.             *)
LockedBy(t, board) ==
    request[t] # Nothing /\ request[t].feature = "analysis" /\ request[t].about = board
AnyBoard(board) == board \in Boards
FreeBoard(board) == \A t \in Tabs : ~LockedBy(t, board)

AskAnalysis(t, key, board) ==
    /\ Idle(t) /\ FreeBoard(board)
    /\ ByKey("analysis", key) = {} /\ \A i \in JobsOf("analysis") : ~IsActive(i)
    /\ Begin(t, [Asking("analysis", key) EXCEPT !.about = board])
    /\ UNCHANGED <<text, jobs, conv, made, swept>>
-----------------------------------------------------------------------------
(* Diagnoses and their synthesis.                                          *)
AskEvaluation(t, key, persona) ==
    /\ Idle(t)
    /\ Begin(t, [Asking("evaluation", key) EXCEPT !.about = persona])
    /\ UNCHANGED <<text, jobs, conv, made, swept>>

(* latest_by_persona: an unfinished diagnosis hides a newer result.        *)
Candidates(persona) ==
    {i \in JobsOf("evaluation") :
        jobs[i].about = persona /\ jobs[i].status \in {"active", "succeeded"}}
LatestOf(persona) ==
    LET active == {i \in Candidates(persona) : IsActive(i)}
    IN Newest(IF active # {} THEN active ELSE Candidates(persona))

(* The diagnoses and their states are read at once; is_current reads the   *)
(* questions anew for each of them.                                        *)
AskSynthesis(t, key) ==
    /\ Idle(t)
    /\ \A p \in Personas : Candidates(p) # {} /\ ~IsActive(LatestOf(p))
    /\ LET latest == {LatestOf(p) : p \in Personas} IN
         Begin(t, [Asking("synthesis", key) EXCEPT
                     !.from = latest, !.todo = latest, !.text = jobs[Newest(latest)].text])
    /\ UNCHANGED <<text, jobs, conv, made, swept>>

IsCurrent(i) == jobs[i].text = text

CheckIsCurrent(t) ==
    /\ request[t] # Nothing
    /\ \E i \in request[t].todo :
        /\ IsCurrent(i)
        /\ request' = [request EXCEPT ![t].todo = @ \ {i}]
    /\ UNCHANGED <<text, jobs, conv, made, swept>>
-----------------------------------------------------------------------------
(* The rest of the world: people write, time passes, the worker finishes   *)
(* jobs, the user stops a job or tries it once more.                       *)
Write ==
    /\ text < MaxText
    /\ text' = text + 1
    /\ UNCHANGED <<jobs, conv, made, swept, request>>

PassWindow(i) ==
    /\ \A j \in 1..i : jobs[j].stale <=> j < i
    /\ jobs' = [jobs EXCEPT ![i].stale = TRUE]
    /\ UNCHANGED <<text, conv, made, swept, request>>

(* The answer of the coach goes into the conversation, once, if that is    *)
(* still there; without it the job has failed.                             *)
Answered(i) == \E k \in DOMAIN conv.messages :
    conv.messages[k] = [role |-> "assistant", job |-> i]
Heard(i) == jobs[i].feature # "chat" \/ (conv # Nothing /\ conv.id = jobs[i].about)

Succeed(i) ==
    /\ IsActive(i) /\ Heard(i)
    /\ jobs' = [jobs EXCEPT ![i].status = "succeeded"]
    /\ conv' = IF jobs[i].feature # "chat" \/ Answered(i) THEN conv ELSE Said(conv, "assistant", i)
    /\ UNCHANGED <<text, made, swept, request>>

Fail(i) ==
    /\ IsActive(i)
    /\ \E status \in {"failed", "cancelled"} : jobs' = [jobs EXCEPT ![i].status = status]
    /\ UNCHANGED <<text, conv, made, swept, request>>

Retry(i) ==
    /\ jobs[i].status = "failed" /\ Cardinality(JobsOf(jobs[i].feature)) < DailyLimit
    /\ jobs' = [jobs EXCEPT ![i].status = "active", ![i].retried = TRUE]
    /\ UNCHANGED <<text, conv, made, swept, request>>

AskAi(t) ==
    \/ \E key \in Keys : AskCoach(t, key)
    \/ \E key \in Keys, board \in Boards : AskAnalysis(t, key, board)
    \/ \E key \in Keys, p \in Personas : AskEvaluation(t, key, p)
    \/ \E key \in Keys : AskSynthesis(t, key)

RequestsNext ==
    \/ \E t \in Tabs : AskAi(t) \/ SendToCoach(t) \/ CheckIsCurrent(t) \/ Enqueue(t) \/ GiveUp(t)
    \/ \E i \in DOMAIN jobs : PassWindow(i) \/ Succeed(i) \/ Fail(i) \/ Retry(i)
    \/ Expire \/ CollectExpired \/ DeleteCollected
    \/ Write

RequestsSpec == RequestsInit /\ [][RequestsNext]_requestVars
-----------------------------------------------------------------------------
(* Two requests for the analysis of one board never yield two jobs that    *)
(* are unfinished together, unless the user had one of them tried again.   *)
OneAnalysisAtATime ==
    \A i, j \in JobsOf("analysis") :
        i < j /\ IsActive(i) /\ IsActive(j) /\ jobs[i].about = jobs[j].about =>
            jobs[i].retried \/ jobs[j].retried

(* Where a job and a role occur in the conversation.                       *)
Places(role, i) == {k \in DOMAIN conv.messages : conv.messages[k] = [role |-> role, job |-> i]}

(* Every message of the conversation belongs to a job of its own, however  *)
(* often and from wherever the request was sent, and the answer, of which  *)
(* there is one when the job has succeeded, comes after the question.      *)
TurnsAreComplete ==
    conv # Nothing => \A i \in JobsOf("chat") :
        IF jobs[i].about # conv.id THEN Places("user", i) = {} /\ Places("assistant", i) = {}
        ELSE /\ Cardinality(Places("user", i)) = 1
             /\ Cardinality(Places("assistant", i)) = (IF jobs[i].status = "succeeded" THEN 1 ELSE 0)
             /\ \A q \in Places("user", i), a \in Places("assistant", i) : q < a

(* A synthesis brings together one result per persona, all of the same     *)
(* text, although the questions are read again for each of them.           *)
SynthesisIsOfOneText ==
    \A s \in JobsOf("synthesis") :
        /\ \A i \in jobs[s].from : jobs[i].status = "succeeded" /\ jobs[i].text = jobs[s].text
        /\ {jobs[i].about : i \in jobs[s].from} = Personas
        /\ Cardinality(jobs[s].from) = Cardinality(Personas)

(* What the user asks for is filed once, in order and about one text.      *)
RequestsAreSound == OneAnalysisAtATime /\ TurnsAreComplete /\ SynthesisIsOfOneText
=============================================================================
