------------------------------ MODULE Playlist ------------------------------
(***************************************************************************)
(* How a device finds its server and gets its commands: ssdp.js and        *)
(* playlist.js of etc/wallyd.d, two timers and the requests of one event   *)
(* loop.  Datagrams and their answers get lost and duplicated; a request   *)
(* gives an error, an answer that is no JSON, an answer, or nothing ever.  *)
(***************************************************************************)
EXTENDS Naturals, SequencesExt

CONSTANTS
  Commands,   \* how many commands the server has
  Active,     \* those that are to be executed
  MaxAnswers  \* bound on the answers to M-SEARCH under way

ASSUME PlaylistAssumption ==
  Commands \in Nat /\ MaxAnswers \in Nat /\ Active \subseteq 1..Commands

VARIABLES
  discovery,   \* the flag of ssdp.js
  ssdpTimer, playlistTimer,  \* "waiting" or "closed"
  listening,   \* "sending" until the first M-SEARCH is out, "yes" between readStart
               \* and readStop, else "no"
  answers,     \* answers of the server on their way
  registering, \* calls of registerClient that may still come back
  registrations,
  connection,  \* config.connection: "undefined", "unconfigured", "configured"
  commands,    \* config.connection.commands
  next,        \* where exec is in them, or threw; 0 when playlist does not run
  requested,   \* requests for a command that have not come back
  given,       \* commands the server has given
  executed,
  gone,        \* playlist has ended by an error
  unanswered   \* a request for a command does not come back

searching == <<discovery, ssdpTimer, listening, answers>>
registered == <<registering, registrations, connection>>
playing == <<playlistTimer, commands, next, requested, given, executed, gone,
             unanswered>>
playlistVars == <<searching, registered, playing>>

\* With a location given nothing is searched for.
InitPlaylist ==
  /\ discovery = TRUE /\ answers = 0 /\ connection = "undefined"
  /\ \/ ssdpTimer = "waiting" /\ listening = "sending" /\ registrations = 0
     \/ ssdpTimer = "closed" /\ listening = "no" /\ registrations = 1
  /\ registering = registrations
  /\ playlistTimer = "waiting"
  /\ commands = <<>> /\ next = 0 /\ requested = 0 /\ given = 0
  /\ executed = <<>> /\ gone = FALSE /\ unanswered = FALSE
-----------------------------------------------------------------------------
\* The first M-SEARCH is out, and may be answered.
FirstSent ==
  /\ listening = "sending" /\ listening' = "yes"
  /\ \E n \in answers..MaxAnswers : answers' = n
  /\ UNCHANGED <<discovery, ssdpTimer, registered, playing>>

\* An error of the first M-SEARCH: what the next ones find is never read.
FirstSendFails ==
  /\ listening = "sending" /\ listening' = "no"
  /\ UNCHANGED <<discovery, ssdpTimer, answers, registered, playing>>

\* One more M-SEARCH, with any number of answers.
SsdpTick ==
  /\ ssdpTimer = "waiting" /\ discovery
  /\ \E n \in answers..MaxAnswers : answers' = n
  /\ UNCHANGED <<discovery, ssdpTimer, listening, registered, playing>>

AnswerLost ==
  /\ answers > 0 /\ answers' = answers - 1
  /\ UNCHANGED <<discovery, ssdpTimer, listening, registered, playing>>

AnswerArrives ==
  /\ answers > 0 /\ answers' = answers - 1
  /\ listening = "yes"
  /\ discovery' = FALSE /\ listening' = "no"
  /\ UNCHANGED <<ssdpTimer, registered, playing>>

\* Faulty variant: the timer goes on.
SsdpRegisters_KeepsTimer ==
  /\ ssdpTimer = "waiting" /\ ~discovery /\ registering < 2
  /\ registering' = registering + 1
  /\ registrations' = registrations + 1
  /\ UNCHANGED <<searching, connection, playing>>

SsdpRegisters ==
  /\ ssdpTimer = "waiting" /\ ~discovery
  /\ ssdpTimer' = "closed"
  /\ registering' = registering + 1
  /\ registrations' = registrations + 1
  /\ UNCHANGED <<discovery, listening, answers, connection, playing>>

\* The answer may bring a list of commands.
Registered ==
  /\ registering > 0 /\ registering' = registering - 1
  /\ connection' \in {"unconfigured", "configured"}
  /\ \E k \in 0..Commands : given' = k /\ commands' = [i \in 1..k |-> i]
  /\ UNCHANGED <<searching, registrations, playlistTimer, next, requested, executed,
                 gone, unanswered>>

\* An error, an invalid answer or none at all; there is no second try.
RegistrationFails ==
  /\ registering > 0 /\ registering' = registering - 1
  /\ UNCHANGED <<searching, registrations, connection, playing>>
-----------------------------------------------------------------------------
\* playlistWait, which finds a connection that is configured.
PlaylistBegins ==
  /\ playlistTimer = "waiting" /\ connection = "configured"
  /\ playlistTimer' = "closed"
  /\ next' = 1
  /\ UNCHANGED <<searching, registered, commands, requested, given, executed, gone,
                 unanswered>>

\* Faulty variant: a command without a module is the last.
Exec_Stops ==
  /\ next \in 1..Len(commands) /\ ~gone
  /\ next' = IF commands[next] \in Active THEN next + 1 ELSE 0
  /\ executed' = IF commands[next] \in Active THEN Append(executed, commands[next])
                                              ELSE executed
  /\ UNCHANGED <<searching, registered, playlistTimer, commands, requested, given,
                 gone, unanswered>>

\* exec of one command; one without a module is only logged.
Exec ==
  /\ next \in 1..Len(commands) /\ ~gone
  /\ next' = next + 1
  /\ executed' = IF commands[next] \in Active THEN Append(executed, commands[next])
                                              ELSE executed
  /\ UNCHANGED <<searching, registered, playlistTimer, commands, requested, given,
                 gone, unanswered>>

\* A module that throws ends playlist: nobody catches it.
ExecThrows ==
  /\ next \in 1..Len(commands) /\ ~gone /\ commands[next] \in Active
  /\ gone' = TRUE
  /\ UNCHANGED <<searching, registered, playlistTimer, commands, next, requested,
                 given, executed, unanswered>>

\* Faulty variant: the commands stay in the list.
RequestCommand_Keeps ==
  /\ next = Len(commands) + 1 /\ ~gone
  /\ next' = 0
  /\ requested' = requested + 1
  /\ UNCHANGED <<searching, registered, playlistTimer, commands, given, executed,
                 gone, unanswered>>

RequestCommand ==
  /\ next = Len(commands) + 1 /\ ~gone
  /\ next' = 0
  /\ commands' = <<>>
  /\ requested' = requested + 1
  /\ UNCHANGED <<searching, registered, playlistTimer, given, executed, gone,
                 unanswered>>

CommandGiven ==
  /\ requested > 0 /\ ~unanswered /\ requested' = requested - 1
  /\ given < Commands /\ given' = given + 1
  /\ commands' = Append(commands, given')
  /\ next' = 1
  /\ UNCHANGED <<searching, registered, playlistTimer, executed, gone, unanswered>>

\* restartLoop starts a timer that has been closed: the error is logged.
CommandFails ==
  /\ requested > 0 /\ ~unanswered /\ requested' = requested - 1
  /\ gone' = TRUE
  /\ UNCHANGED <<searching, registered, playlistTimer, commands, next, given,
                 executed, unanswered>>

\* request returns without a callback when the name of the server has no address,
\* and it waits without a timeout for an answer.
CommandUnanswered ==
  /\ requested > 0 /\ ~unanswered /\ unanswered' = TRUE
  /\ UNCHANGED <<searching, registered, playlistTimer, commands, next, requested,
                 given, executed, gone>>

FirstStep == FirstSent \/ FirstSendFails
SearchStep == SsdpTick \/ SsdpRegisters
RegisterStep == Registered \/ RegistrationFails
PlaylistStep ==
  \/ PlaylistBegins \/ Exec \/ ExecThrows \/ RequestCommand
  \/ CommandGiven \/ CommandFails \/ CommandUnanswered

NextPlaylist ==
  FirstStep \/ SearchStep \/ AnswerLost \/ AnswerArrives \/ RegisterStep \/ PlaylistStep

SpecPlaylist == InitPlaylist /\ [][NextPlaylist]_playlistVars

\* Timers fire, a datagram is sent or fails, and not every answer is lost.  A request
\* comes back or will not: CommandUnanswered and RegistrationFails are steps too.
FairPlaylist ==
  /\ WF_playlistVars(FirstStep)
  /\ WF_playlistVars(SearchStep) /\ SF_playlistVars(AnswerArrives)
  /\ WF_playlistVars(RegisterStep) /\ WF_playlistVars(PlaylistStep)
-----------------------------------------------------------------------------
\* However often the search is repeated and answered, there is one registration
\* and one playlist, which has one request at a time and none while it executes.
OneOfEach ==
  /\ registrations <= 1
  /\ requested + (IF next > 0 \/ playlistTimer = "waiting" \/ gone THEN 1 ELSE 0) = 1

\* Of the commands given those with a module have been executed, but for the ones
\* that exec has not come to; each once, and in the order given.
CommandsOnce ==
  LET waiting == {commands[i] : i \in (IF next = 0 THEN 1 ELSE next)..Len(commands)}
  IN /\ {executed[i] : i \in DOMAIN executed} = {c \in Active \cap 1..given : c \notin waiting}
     /\ \A i, j \in DOMAIN executed : i < j => executed[i] < executed[j]

\* A device that listens, and whose server answers some day, comes to register, and
\* one that the server calls configured executes all the commands, unless an error
\* or a request that does not come back ends that.
AllExecuted ==
  /\ listening = "yes" ~> registrations = 1
  /\ connection = "configured"
       ~> \/ gone \/ unanswered
          \/ executed = SelectSeq([c \in 1..Commands |-> c], LAMBDA c : c \in Active)
=============================================================================
