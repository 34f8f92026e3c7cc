# A formal model of moqqie-be

moqqie-be is the backend of an automated interviewer: recruiters prepare assessments, candidates are mailed a link and a
password, talk to a language model over a socket, and the recruiter gets a feedback with a score per question. It is one
NestJS process with a MySQL database (TypeORM), a RabbitMQ broker, an object store and three remote services (OpenAI,
the email provider, a chat).

The modules here model the code under `src/` that changes state. They are checked with TLC on small instances; the safety
properties of all of them, and that two of them keep the contract between them, are proved with TLAPS for every instance.
Paths below are relative to `src/src/`.

1. [The system](#1-the-system)
2. [How the code is turned into modules](#2-how-the-code-is-turned-into-modules)
3. [Modules and runs](#3-modules-and-runs)
4. [What is proved](#4-what-is-proved)
5. [Where the code does not keep what it says](#5-where-the-code-does-not-keep-what-it-says)
6. [What is not modelled](#6-what-is-not-modelled)
7. [Plan](#7-plan)

## 1. The system

| component | state it keeps | operations | modelled in |
|---|---|---|---|
| Interview of one meeting (`assessments.service.ts`, join … end) | meeting row, its question rows, conversation (one JSON column) | join, a turn of the talk, leave, upload of the recording, resend, recreate, end | `Interview` |
| Preparation of assessments (`assessments.service.ts`, create … publish) | assessment rows with candidates, question rows, meeting rows | create, update, assign questions, assign candidates, publish, recreate | `Assessments` |
| Feedback analysis (`feedbacks.service.ts`) | feedback row, scores on the meeting's question rows | consumer of `analyze-assessment`; cron cleanup of feedbacks two hours in preparation | `FeedbackAnalysis` |
| What the two have in common | feedback rows and the one message of each | insert, request, publish, deliver, resolve, acknowledge, discard | `FeedbackRequests`, abstractly |
| Email delivery (`emails.service.ts`, the handlers that replace or save back a password, sign-in of candidates) | the password hash of a meeting, the queue, what the candidate got | rotate the password, request an email, consume, sign in, join, save a recording | `EmailDelivery` |
| Invitations and membership (`invitations.service.ts`, `organizations.service.ts`) | organizations, users, invitations | create an organization, invite, renew, validate, accept, expire, revoke | `Invitations` |
| Interview gateway (`assessment.gateway.ts`) | audio and video buffers per meeting, files under `tmp/` | join, chunks, submit-answer, end-recording, left | `Recording`, and `Interview` for the rows |
| Question bank (`questions.service.ts`) | questions, rules, labels | create label, create question, update by a list of rule actions | `QuestionBank` |
| Message queues (`queue-base-service.ts`, `amqp.service.ts`) | queues at the broker, the message out for acknowledgement | publish without waiting, deliver one at a time, acknowledge, redeliver | in the modules that use them, and in `FeedbackRequests` |
| Language model client (`openai.service.ts`) | none | completions (one kind with retries), transcription, speech | an operator of `FeedbackAnalysis`; elsewhere a free choice |
| Object store client | objects by key | put, get | `Recording` |
| Tiers | limits of an organization | read | constants of `Assessments` and `Invitations` |
| Authentication and authorization (`auth.service.ts`, its middleware and guard) | none; the token in the client's cookie | sign in, impersonate, sign out, expiry | `Accounts`; candidates in `EmailDelivery` |
| Service setup and administrators (`service-configuration.service.ts`, `admins.service.ts`) | the row `service_setup`, administrators | set up once, after any number of starts | `Accounts` |
| Candidates (`candidates.service.ts`) | candidate rows | create, update | `Accounts` |
| Notifications, overview data, HTTP edge, migrations | see section 6 | | not modelled |

**How they interact.** Everything meets in the database rows. The gateway's `submit-answer` runs one turn
(`conductAssessmentMeeting`); the turn that runs out of questions inserts the feedback, completes the meeting and sends a
message to `analyze-assessment`; the consumer scores the question rows and finishes the feedback; the cron job deletes a
feedback that stays in preparation and puts its meeting to `error`. `publish`, `resend` and `recreate` store a password and
send a message to the queue of assessment emails. Invitations become users of an organization, who own assessments and
questions, with a token that names the organization they had when they signed in. A candidate's token is had with the
password of any of the candidate's meetings.

**What makes it hard.** There is one thread but no transaction and no lock. Between any two `await`s another handler may
run, and a handler goes on with the rows it read before; `Repository.save(entity)` then writes back every column that
differs from the row, stale ones included. Some saves and all sends to the broker are not awaited, so they land later and
in any order, or never if the process stops. Messages are delivered again after a restart, and a consumer that returns
without an acknowledgement keeps its queue (prefetch 1) from moving. What a candidate does (disconnect, rejoin, send two
answers) is not under the server's control.

**What each component should keep** (and where it is stated):

- interview: questions in order, each followed up once at most, no exchange overwritten, the end requested exactly once and
  backed by a feedback (`Interview`);
- preparation: what is published stays as it is, one meeting per candidate, in a joined one all questions of the
  assessment (`Assessments`);
- analysis: acknowledged means resolved, ready means readable, no feedback in preparation for good (`FeedbackAnalysis`);
- both together: the message of a feedback is in one place at a time, and lost only when the process stops
  (`FeedbackRequests`, which `Interview` and `FeedbackAnalysis` implement from either end);
- emails: the last email opens the meeting, none comes after a newer one; no message blocks the queue (`EmailDelivery`);
- membership: ends by its own revocation, never the last one (unless two are revoked at once); accepted invitations have
  accounts (`Invitations`);
- recordings: no sound in two answers, no film lost on its way to the store (`Recording`);
- question bank: rules end by a delete, requests stay within their question and organization (`QuestionBank`);
- accounts: a setup that ends however often it is cut off, no token for a former member in the end, one candidate per
  address (`Accounts`).

`PROJECT.json` lists the hazards line by line with the properties that cover each.

## 2. How the code is turned into modules

- **One action per stretch of code between two awaits.** A variable `frame` holds, for each handler in flight, where it
  waits (`pc`, named for what comes next) and what it will still use of what it read. A request begins with an action
  named like the handler; early returns are guards, exceptions end the frame.
- **Rows are functions or sequences.** A `save` of an entity writes what the frame holds. A row that was deleted in the
  meantime is inserted again by `save` (TypeORM reads the row first and inserts when there is none), without the relations
  the entity was not loaded with; an entity with a cascading list of rows detaches those not in the list. These are the
  semantics of TypeORM as the code depends on it; they are marked external in the map.
- **Data is abstracted** to what a property tells apart. What the language model answers is a choice; texts, names, scores, dates and
  hashes are left out. An expired invitation or an old feedback is a Boolean that an action may set at any time.
- **Bounds are constants.** `Max…` and `Bound` cap what would grow for ever, always in the guard that starts something, so
  no handler in flight is cut short by a bound.
- **History variables** (`overlapped`, `contested`, `raced`, `moved`, `orphaned`, `failures`, `lost`, `restarted`, `acked`)
  record that something happened. No action reads them but to count up to a bound. A property that holds only without
  interference names the
  variable as its condition, and the run still explores the interference.
- `\* Mutant:` marks a variant of a definition with a plausible mistake in it. No specification uses it; it is there to show
  that a property can fail, one for each property of each passing run.

## 3. Modules and runs

All runs: `tlc -workers 2 -config X.cfg MCM.tla`. Deadlock is not checked anywhere, because every instance may come to rest:
nobody is obliged to call, and bounds run out.

### Interview

One meeting with everything that touches its row. `Join` → `InsertMeetingQuestion`* → `Enter`; `Leave` → `MarkLeft`;
`EndRecording`/`ResendEmail` → `SaveMeeting`; `Recreate` → `WipeConversation` → `Reopen` → `DeleteMeetingQuestions`;
`CleanUp` → `DropFeedback` → `MarkError`; and a turn, `SubmitAnswer` → `sendGreetingMessage`, or → `Hear` → `ReviewAnswer` →
`AskFollowUp`/`CountFollowUp` or `RetrieveQuestion` → `AskQuestion` or `SayGoodbye` → `CreateFeedback` → `Complete` →
`StoreTalkAgain`. `LandSave` and `sendToQueue` are the calls nobody awaited; `Crash` loses frames and those calls.

| run | instance | shows |
|---|---|---|
| `interview_paced` | two handlers, two questions; the client waits for each reply, may leave once and rejoin, uploads a recording; cleanup once | `AskedInOrder`, `OneFollowUpPerQuestion`, `TalkOnlyGrows`, `GoodbyeCompletes` |
| `interview_overlapping` | two handlers, one question, every operation once, any client, one crash | `TypeOK`, `ImplementsRequests`, `CompletedHasFeedback`, `WholeExchanges` |
| `interview_leaving` (violated) | a leave during the last turn | `CompletedIsFinal` fails |
| `interview_recreated` (violated) | a completed meeting recreated and held again | `GoodbyeCompletes` fails |

`Paced` says that the client sends nothing before the `loading: false` that the gateway emits at the end of a turn; nothing
in the server enforces it, so `interview_overlapping` does without. The order of questions depends on it, the ending does
not. An entry of the talk carries the question it asks and the one it follows up, so `OneFollowUpPerQuestion` is about each
question by itself: no second follow-up on any, whatever happens to the others. Two questions are what the order of
questions and the twofold reversal (inserted `DESC`, taken `DESC`) need; two
handlers are what an interleaving needs.

`FairSpec`: weak fairness of every step of a handler in flight (an awaited call returns or rejects) and of the calls that
were not awaited. None for requests: nothing makes a candidate call. `GoodbyeCompletes` needs no other.

### FeedbackRequests, InterviewRefinement, FeedbackRefinement

`FeedbackRequests` is the contract between the ending of a meeting and the analysis of its feedback, without turns,
questions or handlers: a feedback is inserted, its message becomes due, is issued, queued, delivered one at a time and
acknowledged; the row leaves preparation by the consumer that holds its message or by the cleanup; a stop loses what the
broker does not have and returns what was out. It promises `OnePlace` (a message is never in two of those places) and
`NoneForgotten` (a feedback in preparation has a message somewhere unless the process stopped).

| contract | `InterviewRefinement` | `FeedbackRefinement` |
|---|---|---|
| `rows` | the feedbacks ever inserted, `1..feedbacks` | feedbacks whose row ever was |
| `preparing` | the row of the meeting, `{feedback} \ {0}` | rows in status `preparing` |
| `due` | what handlers at `complete` hold | none, the row comes with its message |
| `issued`, `queue` | `unsent`, `tasks` | `unsent`, `queue` |
| `out`, `done` | nothing, nobody consumes | `unacked`, `acked` |
| `stopped` | a crash was called | `restarted` |

`ImplementsRequests == Requests!Spec` in both, checked as a PROPERTY of `interview_overlapping` and of `feedback`, and proved
for every instance, along with the two promises (section 4). Since each implements the same contract, from either end of the queue, they fit together;
there is no module that runs both at once. The due message is what makes the refinement hard: it is in the frame of a
handler while others end the same meeting, clean up its row or recreate it.

### FeedbackAnalysis

The queue, the consumer and the cron job over two feedbacks of two questions. `EndMeeting` stands for the ending of an
interview (several talks are possible, also one that leaves a question unspoken); `Deliver`, `LoadFeedback`,
`AnalyzeQuestion`, `SaveQuestion`, `ReloadFeedback`, `JudgeFeedback`, `SaveFeedback`, `Ack` are the consumer's stretches;
`ParseFailure` and `AverageOfNothing` are its two exceptions. An exception in a consumer callback is an unhandled rejection:
the process ends, is started again and the message is redelivered.

Run `feedback` (1.6 million states, about two minutes): `TypeOK`, `AckedIsResolved`, `ReadyIsReadable`,
`BlockedOnlyByDeletion`, `PreparingEnds`, `ImplementsRequests`. `ReadyIsReadable` relates the consumer's verdict to what
`getAssessmentMeetingFeedback` later demands (`Obstacles`): a feedback announced as ready is refused for nothing but a question
marked as asked and never spoken. Two feedbacks let one message block the other; one crash or
malformed answer, and the recreation of one meeting, at any point. Fairness: the consumer's next step, the cron job (the
scheduler runs it every so often), the passing of time, and messages already issued. `PreparingEnds` excepts a recreated
meeting: between deleting its questions and the next join the consumer divides by zero, throws on every delivery and, since
nothing bounds those restarts, the cron job may never find the time.

### Assessments

`Create`, `UpdateAssessment`, `AssignQuestions` (delete all, insert one by one), `AssignCandidates`, `Publish` (save, then one
meeting per candidate), and `RecreateMeetings`, which for each candidate finds a meeting and empties its conversation
(`ResetMeeting`), makes it pending again (`ReopenMeeting`) and deletes its questions (`DeleteMeetingQuestions`), or inserts a
new one. Candidates come beside the requests: `Join` → `FindQuestions` → `CopyQuestion`* → `Enter`, which ends anywhere when a
call fails (`Abandon`). A meeting is joined in any status of this module: the code refuses completed and failed ones only, and how
a meeting ends is followed in `Interview`. `OneAtATime` says that no two requests work on one assessment at once; joins are not requests and
come at any time, also between the three writes of a recreation.

| run | instance | shows |
|---|---|---|
| `assessments` (1.5 million states, two minutes) | one assessment, two candidates, two questions, one request at a time, any of which may fail, one join beside it | `TypeOK`, `OneMeetingPerCandidate`, `JoinedHasQuestions`, `PublishedIsSettled`, `PublishedHaveMeetings` |
| `assessments_overlapping` (violated) | two requests at once, no joins | `PublishedIsSettled` fails |

Assessments share no row but the tier's limits, so one is enough; two questions are what it takes to have copied some of them
and not the others. `MaxRecreated` bounds how many candidates one call of recreate names; two is all of them, or one of them
twice. `JoinedHasQuestions` says that a joined meeting has the questions of its assessment, all and no others, after joins and
recreations that stopped halfway and were repeated. It leaves out the meetings that were joined while a request recreated
them (`raced`), because there the code breaks it (section 5). Fairness: a request that is being worked on goes on.

### Invitations

`admin_createOrganization` (organization, tier, link between them), `defineInvitation` (find, count members, delete the
pending one, insert), `validateInvitationToken`, `acceptInvitation`, `Expire`, and `revokeMembership`, which takes the member off
the list it read and saves that list. Saving a list takes two steps: `FindMembers` reads the members there are and compares,
`SaveMembers` detaches and attaches the difference. Unique indexes refuse an insert.

| run | instance | shows |
|---|---|---|
| `invitations` (4.6 million states) | two organizations, two addresses, two requests at once, three emails, one failure | `TypeOK`, `AcceptedHasAccount`, `LastLinkExists`, `LastMemberStays`, `OnlyRevocationEnds` |

Two addresses and two organizations let an address be invited twice, by both, and let a revocation race an acceptance.
`OnlyRevocationEnds` leaves out organizations on which two requests were in flight at once: `revokeMembership` writes back a
list that another may have changed. `LastMemberStays` covers those as well, a member revoked twice at once and acceptances in
between included; it leaves out only organizations two members of which were revoked at once (`contested`), where each
request may see both and detach one (section 5).

### EmailDelivery

The password of a meeting is replaced and mailed by `publish`, `resend` and `recreate`; each stores first, then issues the
message. `joinAssessmentMeeting` and `uploadMeetingVideo` read the meeting, await, and save it back whole, password
included. A candidate signs in with the password of an email; the token names the candidate, not the meeting. The consumer
takes a message, waits 100 ms, hands it to the provider, which takes or refuses it, and acknowledges.

Run `email` (169,000 states): two meetings of one candidate, two requests at once, two passwords, one crash: `TypeOK`,
`LastEmailOpens`, `PasswordsInOrder`, `EveryEmailIsHandled`. Two passwords are what it takes to mail one, replace it and have
something older come back. `LastEmailOpens` leaves out meetings one of whose emails was lost (a crash before the broker had
it, a refusal) and those on which requests overlapped, because there the code does break it: a save of a join or an upload
brings back the password it read, and two replacements may be mailed in the other order. `PasswordsInOrder` says that the
emails that came, and after them the stored password, are in the order in which the passwords were made, lost emails or not;
it too needs that requests on the meeting do not overlap. Redelivery after a crash is in.
Fairness: the event loop and the broker.

### Recording

Buffers, answers and recordings of one meeting, to the object store. Run `recording`: two events in work, three chunks, two
files, two resets, one failure or crash: `TypeOK`, `AnswersAreApart`, `RecordingIsKept`, `ChunksAreKept`, `RecordingIsStored`. The
four invariants are also proved, in `RecordingProofs`.
Three chunks let something come before, during and after an upload. `ChunksAreKept` is given up once a chunk came during an
upload (`raced`), since the buffer is emptied when the upload returns.

### QuestionBank

Labels, questions and rules of two organizations. An update works through a list of actions, one await each, and then saves
the question with the list of rules it held all along. Run `question_bank`: three requests, two at once, lists of up to two
actions with any id of a rule that was ever created: `TypeOK`, `RulesEndByDelete`, `OwnRulesOnly`.
Lists of two are what "the second action is refused" needs. `RulesEndByDelete` leaves out questions on which two requests
were in flight at once; `OwnRulesOnly` holds however they overlap. Both are also proved, in `QuestionBankProofs`.

### Accounts

`setupService` (the constructor starts it and does not await it): `FindConfiguration` → `registerAdmin` → `InsertAdmin` →
`SaveConfiguration`, cut off anywhere by `Restart`, which may come with another `ADMIN_EMAIL_ADDRESS`. `user_signIn`,
`admin_signIn` and `admin_impersonate` read the row, await, and `SetCookie`; `signOut` and `Expire` take the cookie away.
`Performer` is what the token says: nothing is looked up again. `Accept` and `revokeMembership` are the memberships of
`Invitations`, each in one step. `create` → `InsertCandidate` and `updateCandidate` → `SaveCandidate` are done with the token.

Run `accounts` (1.3 million states, one minute): one administrator address, two users, one organization and client, two
candidate rows and addresses, two requests at once, one crash: `TypeOK`, `OneCandidatePerAddress`, `SetupCompletes`,
`RevokedLosesAccess`. Two users are what a revocation needs (never the last member); two rows, two addresses and two
requests what a duplicate needs. That a restart brings another address is left to the theorem `SingleAdmin`: with one address
a second administrator cannot come about. With several it can: a setup cut off after it inserted the administrator and before
it saved the configuration leaves that one behind (`orphaned`), and the next start inserts another. `OneAdmin` says that of
all administrators at most one is no such orphan, `AdminsSettled` that none is added once the service is configured.

`FairSpec`: the setup goes on when its await returns, and a token expires (`JWT_EXPIRES_IN`). `RevokedLosesAccess` says that a
former member ends up without a token: a sign-in or an impersonation that read the membership before the revocation may
still bring one, but none leads to another. `OneCandidatePerAddress` excepts what an update moved and what two simultaneous
requests entered, because no unique index keeps them from it.

## 4. What is proved

All theorems hold for every value of the constants, under the assumptions on constants that the modules state (mostly: a
bound is a natural number, `None` is nothing else, there is a handler and a question) and the conditions the table names.

| module | theorem | statement |
|---|---|---|
| `InterviewProofs` | `TypeCorrect`, `CompletedIsBacked`, `ExchangesAreWhole` | `[]TypeOK`, `[]CompletedHasFeedback`, `[]WholeExchanges` |
| | `FeedbackRequested`, `RequestedOnce` | `[]FeedbackIsRequested`, `[]OneTaskPerFeedback` |
| | `InterviewImplementsRequests` | `Spec => ImplementsRequests` |
| | `RequestInOnePlace`, `RequestNeverForgotten` | `[]Requests!OnePlace`, `[]Requests!NoneForgotten` |
| | `TalkIsKept` | `TalkOnlyGrows`, for a client that waits (`Paced`) |
| | `QuestionsInOrder` | `AskedInOrder` until a crash, for such a client |
| | `FollowUpsAreLimited` | `OneFollowUpPerQuestion` until a crash, for such a client |
| `FeedbackProofs` | `AnalysisImplementsRequests` | `Spec => ImplementsRequests` |
| | `InOnePlace`, `NeverForgotten` | `[]Requests!OnePlace`, `[]Requests!NoneForgotten` |
| | `TypeCorrect`, `BlockedOnlyWhenDeleted`, `AcknowledgedIsResolved`, `ReadyCanBeRead` | `[]TypeOK`, `[]BlockedOnlyByDeletion`, `[]AckedIsResolved`, `[]ReadyIsReadable` |
| `EmailProofs` | `TypeCorrect`, `ArriveInOrder`, `LastOpens` | `[]TypeOK`, `[]PasswordsInOrder`, `[]LastEmailOpens` |
| `AssessmentsProofs` | `TypeCorrect` | `[]TypeOK` |
| | `OneMeetingEach`, `QuestionsAreCopied`, `PublishedStays` | `[]OneMeetingPerCandidate`, `[]JoinedHasQuestions`, `PublishedIsSettled`, for one request at a time |
| `InvitationsProofs` | `TypeCorrect`, `AcceptedHaveAccounts`, `MembersRemain` | `[]TypeOK`, `[]AcceptedHasAccount`, `LastMemberStays` |
| | `RevocationEnds`, `LastLinkStays` | `OnlyRevocationEnds`, `[]LastLinkExists` |
| `AccountsProofs` | `TypeCorrect`, `SingleAdmin`, `CandidateOnce` | `[]TypeOK`, `[]OneAdmin` and `AdminsSettled`, `[]OneCandidatePerAddress` |
| `RecordingProofs` | `TypeCorrect`, `NamedRecordingIsKept`, `AnswersStayApart`, `VideoIsKept` | `[]TypeOK`, `[]RecordingIsKept`, `[]AnswersAreApart`, `[]ChunksAreKept` |
| `QuestionBankProofs` | `TypeCorrect`, `OwnRules`, `RulesEnd` | `[]TypeOK`, `OwnRulesOnly`, `RulesEndByDelete` |

**The contract.** What `FeedbackRequests` promises is proved of both who implement it, as `Requests!OnePlace` and
`Requests!NoneForgotten` under their mappings. For the analysis `ContractInv` makes `OnePlace` inductive with `Places` (only
rows are requested, one message is out at most): a step moves a message from one place to the next and needs to know that it
is in no third. It is shown to be kept by the steps of the contract, one lemma each, so every step that refines one keeps it.
For the interview both promises follow from `RequestInv`.

**Interview.** Type correctness needs the guards: `ReviewAnswer` looks into a row only after `getMeetingQuestion` found it, and a
conversation is written only within the table.

- *Requested, and once.* To know that a message just issued is not in the queue, one must know that no other handler holds
  the same feedback. `RequestInv` says that a feedback is on exactly one of three ways, held by the one handler that inserted
  it, issued, or in the queue. All steps but five leave those ways alone (`StepsAside`; `RequestKept` handles them at once);
  `RequestCreate`, `RequestComplete`, `RequestSend` and `RequestCrash` do the rest.
- *The refinement* reuses `RequestInv` and `StepsAside`: a step aside is a `Discard` or invisible, each of the five is one step
  of the contract.
- *Completed has a feedback.* The status is also written by handlers that bring back what they read (`SaveMeeting`), and a
  feedback may be deleted. `CompletedInv` adds that whoever carries the status `completed` read it when there was a feedback or
  a cleanup had been called, that the handler about to complete has its feedback or a cleanup came in between, and that only
  a called cleanup is about to delete.
- *Whole exchanges.* A turn overwrites the conversation with its own copy, so what has to be whole is every copy at the moment
  it is stored. `TalkInv` says by `pc` how far the copy of a handler is: as read, with the answer, with the reply.

**Interview with a client that waits.** Three theorems assume `Paced`; `interview_overlapping` is there because the server does
not enforce it, and none of the three holds without.

- *A talk only grows.* `GrowInv`: at most one handler works for the candidate (`Alone`), and the copy a turn holds begins with
  what is stored (`Copied`).
- *Questions in order.* `OrderInv`: the rows of a join come one below the other (`RowsInOrder`); a row is taken when it is off the
  offer or its save is on the way (`Taken`); the candidate's next call finds those saves landed, so a turn takes the topmost of
  what is left, and everything the talk has asked is above it (`Settled`, `Ordered`). A crash loses a save that nobody awaited,
  after which a question is asked again; so the theorem holds until the first crash.
- *One follow-up per question.* A turn stores the follow-up before it counts it, so that all stored follow-ups are counted is
  not inductive. `FollowInv`: of each question a conversation holds one follow-up at most, and that one is counted on the
  row or its handler is about to count it (`Pursued`); a turn at any other place holds a copy in which all are counted
  (`Noted`), and one that is about to follow up has a row that was not (`Followed`); a save on its way, which writes the counter
  as well, writes what the row has (`SavesCount`). A crash between the reply and its count loses the count, after which the
  question can be followed up again; so the theorem holds until the first crash, and through resends and recreations.

These conditions are not there for the prover: with `Bound` changed to allow one crash, TLC finds `AskedInOrder` and
`OneFollowUpPerQuestion` violated. The run `interview_paced` allows none.

**Feedback analysis.** The message held by the consumer is the only one of its feedback; that is `OnePlace`, which the
refinement brings along. So `ContractInv` is a part of the invariant, kept because each step is one of the contract
(`ContractKept`). `Progress` says what the holder has achieved at each `pc`, `Judged` that
verdict and questions agree, and `Sound` that they still do once the message is acknowledged, when no delivery is left that
could change a question.

**Preparation.** `TypeCorrect` needs no assumption; the others assume `OneAtATime`, since `assessments_overlapping` shows that they
fail for two requests at once. `Work` says what a request relies on after an await: the status it compared is still the
stored one, a row it is going to save differs from the stored one in nothing but what the request is about, and `publish` has
the candidates left that have no meeting. `RowsInv` adds that only a published assessment has meetings, one for a candidate.
`JoinInv` stands beside this for the joins: a meeting has no question its assessment has not (`CopiesInv`); a join still has
ahead of it what is not copied (`VisitInv`); a recreation that met no join deletes the questions of a pending meeting
(`RecreatingInv`). Steps that touch neither meetings nor joins keep it at once (`BesideJoins`). The theorems hold whatever fails
halfway and however many candidates join at once.

**Email delivery.** `RequestsAgree`: a request that overlaps with none still agrees with the row it read, but for the new password
before it is stored. `MailFollows`: what is issued, queued or delivered is no newer than the row. `Ordered`: what came, what is
queued and what is issued follow each other, oldest first; a message appended has the password of the row, which nothing
exceeds, and a message delivered again is the head of the queue, which nothing that came exceeds. `LastIsMailed`: when no
request is about to issue one, the last of all messages for a meeting has its password. `SentIsLast` carries this across the
moment in which an email was sent and is not yet acknowledged, after which a crash sends it again.

**Invitations.** `AccountInv` adds that a request past the insert of the account finds it there; accounts are never deleted
(`UsersStay`). Why the last member stays although
every revocation writes what it read earlier is the matter of two parts. `MembersInv`: whoever is on the list of a revocation, or
is about to be detached, is a member of its organization or of none (`AtHome`), and revocations of different organizations
have nobody in common (`Apart`); so a save never takes a member away from another organization. `SparedInv`: where no two
members were revoked at once, all revocations at work on an organization are of the same member, and one other member is on
all their lists and among none of those to be detached (`Spares`). `RevocationInv`: a revocation that met no other request of
its organization still holds the current list without the one it is about, and then detaches that one only.
`LinkInv` follows the tokens: a row has the address it was mailed to (`RowsAreMailed`), a request that renews or accepts
has the token of its own address (`TokenIsOf`), and an older row next to a newer link is there only because an acceptance
saved it again, whose account exists by then (`OlderIsAccepted`).

**Accounts.** `SetupInv` ties the progress of the setup to what is configured and who is there: before the setup is at its second
insert every administrator is an orphan, and from then on every one but that of this setup. `ListInv` adds to
`OneCandidatePerAddress` what holds between the check and the insert: a row that is the same by now was moved there, and
a second request for the same was noticed.

**Recording.** `UploadIsKept`: the file of an upload in work was written and can be found, and is in the object store when its
handler is about to unlink it. `BufferIsYounger`: what is buffered came after every answer. `VideoIsWritten`: as long as no chunk
came during an upload, the buffer that an upload empties holds nothing but what its file has.

**Question bank.** The save at the end of a request detaches every rule of the question that is not in the entity's list, and
attaches those that are; so everything depends on what is in that list after the awaits in between. `RequestTyped` says what
a request holds at each `pc`, and that the rules it lists were created. `ListsInv`: a rule in a list belongs to the question of
the request or, when another request detached it or put it back, to none, and is in no list of another question; hence
`OwnRulesOnly`, however requests overlap. `CurrentInv`: two requests on a question count as overlapping (`Alone`), and a request
that met no other on its question lists exactly the rules the question has, so its save changes none of them; hence
`RulesEndByDelete`, also when the request fails halfway. `Effects` reduces the steps of both handlers to the five things they
may do to the rules.

**Only model-checked:** liveness, because fairness and `ENABLED` are out of the prover's reach: `GoodbyeCompletes`, `PreparingEnds`,
`PublishedHaveMeetings`, `EveryEmailIsHandled`, `RecordingIsStored`, `SetupCompletes`, `RevokedLosesAccess`. What the bounded
instances say of them is all that is known. Every invariant and every action property of a passing run is proved, under the
conditions the table names. Nothing is proved about recursion; the modules have none.

## 5. Where the code does not keep what it says

Each of these is a run whose property, quoting the code, TLC finds violated.

- **A completed meeting is reopened by a leave** (`interview_leaving`). `internalLeaveAssessmentMeeting` updates to `left`
  whatever the status has become since it was read; the meeting can then be joined again, against
  `Assessment is already completed!`.
- **A recreated meeting is never completed again** (`interview_recreated`). Its feedback row stays, the column is unique, and
  the second ending throws after the goodbye.
- **A published assessment changes** (`assessments_overlapping`). The handlers check the status they read, then write one
  row at a time.

Seen while modelling and kept as guards, conditions or free choices of the modules, without a run of their own:

- a turn that fails after `internalRetrieveQuestion` marked a question loses that question (`assessments.service.ts:1027`);
- such a question does not keep the feedback from becoming ready (`feedbacks.service.ts:311`), and then from being refused to
  the reader; `ReadyIsReadable` excepts exactly that;
- a message whose feedback was deleted is never acknowledged and blocks the queue until a restart
  (`feedbacks.service.ts:175`); `BlockedOnlyByDeletion` says that nothing else does;
- the quota of meetings is compared before, not when they are created (`assessments.service.ts:299`); the same for members
  (`invitations.service.ts:186`); titles are checked by `create` only (`assessments.service.ts:558`);
- a former member cannot be invited again (`invitations.service.ts:105`): only a pending invitation is looked for, and the
  accepted one keeps the unique index from taking a new one;
- a join or an upload brings back a password that was replaced while it waited (`assessments.service.ts:635`), and two
  overlapping requests may mail their passwords in the other order (`assessments.service.ts:1214`);
- a second end-recording writes an empty file, which the meeting then names (`assessment.gateway.ts:88`);
- a join that a recreation of the meeting overlaps ends as joined with some or none of the questions: its rows are among those
  that are deleted (`assessments.service.ts:450`, `:608`); the recreation may also make a meeting pending that was just joined.
  `JoinedHasQuestions` excepts those meetings (`raced`);
- two recreations that name one candidate may both find no meeting and insert one each (`assessments.service.ts:407`);
- two revocations at once, of the two members of an organization, both find two and detach one each, which leaves none,
  against `Cannot remove the last member!` (`organizations.service.ts:35`, `:45`). `LastMemberStays` excepts those
  organizations (`contested`);
- a revocation that overlaps with an acceptance of the same organization writes the list it read and can undo the
  acceptance (`organizations.service.ts:45`); `OnlyRevocationEnds` excepts overlapping requests;
- a setup that was cut off between its two inserts and is taken up with another address leaves two administrators
  (`service-configuration.service.ts:33`); `OneAdmin` excepts the one left behind;
- two overlapping updates of a question detach each other's new rules, or bring back deleted ones
  (`questions.service.ts:233`).

## 6. What is not modelled

- Notifications: an insert nobody reads back. Overview data: reads.
- HTTP edge and migrations: wiring; the unique indexes the migrations create are in the modules.
- Statuses of accounts and organizations, which are compared at sign-in and which no code changes. User sessions: a table
  that nothing writes. Names, notes and what the lists show.
- Prompts, streaming, speech and transcription: choices of the handlers that call them.
- The consumer of invitation emails: as that of the assessment emails, without a password and without a look at the
  provider's answer. Demo bookings: one insert.
- The connection to the broker: `sendToQueue` publishes while the process runs; opening connection and channels is left out.
- Two early returns of consumers without an acknowledgement: that of a missing email template (`emails.service.ts:65`), an
  error of the deployment, and that of a feedback without its meeting (`feedbacks.service.ts:180`), which the foreign key rules
  out.
- Time: the end date of an assessment and the due date of an email are not compared anywhere in the handlers modelled.

## 7. Plan

Done: `Interview`, `FeedbackAnalysis`, the contract `FeedbackRequests` with both refinements, `Assessments`, `Invitations`,
`EmailDelivery`, `Recording`, `QuestionBank`, `Accounts`, and the proofs of section 4.

What would add most next:

1. A contract of password and mailbox, like that of feedbacks, for `EmailDelivery` to implement, with the consumer of
   invitation emails as a second instance.

Hazards without a property, because the code promises nothing there: a turn that fails after a question was marked
(`assessments.service.ts:1027`), the average of no questions (`feedbacks.service.ts:332`), quota and tier compared early
(`assessments.service.ts:299`, `invitations.service.ts:186`), titles (`assessments.service.ts:558`), recreating a meeting nobody
joined (`assessments.service.ts:433`), re-inviting a former member (`invitations.service.ts:105`), a second end-recording
(`assessment.gateway.ts:88`). The models have the steps; the notes in `PROJECT.json` say what happens.
