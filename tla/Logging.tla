-------------------------------- MODULE Logging --------------------------------
(* The levels of kae (src/logging.cpp): one global and one for each tag, under a  *)
(* shared mutex; and kae::Logger (logger.h, src/logger.cpp), which asks for the   *)
(* level of its tag and then, when the mutex is unlocked, writes or does not.     *)
(* What a message looks like is left out.                                         *)
EXTENDS Integers, LockingThreads

CONSTANTS
    Tags,
    Levels,   \* LogLevel, in its order
    Default,  \* LogLevel::default_level
    Absent    \* the tag has no level of its own

ASSUME LevelsAssumption == Levels \subseteq Nat /\ Default \in Levels
ASSUME AbsentAssumption == Absent \notin Levels

VARIABLES
    global,   \* global_log_level_static
    tags,     \* tags_log_level_static
    readers,  \* the threads that hold logging_mutex shared
    writer,   \* the threads that hold it alone
    call,     \* the call each thread is in
    step,     \* how far that call is
    got,      \* the level it has read
    seen      \* history: what was the level of its tag at some instant of the call

loggingVars == <<global, tags, readers, writer, call, step, got, seen>>

NoCall  == [op |-> "none"]
Queries == [op : {"global_log_level"}] \cup [op : {"tag_log_level"}, tag : Tags]
Logs    == [op : {"log"}, tag : Tags, level : Levels]
Sets    == [op : {"set_global_log_level"}, level : Levels]
           \cup [op : {"set_tag_log_level"}, tag : Tags, level : Levels]
           \cup [op : {"reset_tag_log_level"}, tag : Tags]
Asks(c) == c.op \in {"global_log_level", "tag_log_level", "log"}

LoggingInit ==
    /\ global = Default
    /\ tags = [a \in Tags |-> Absent]
    /\ readers = {} /\ writer = {}
    /\ call = [t \in Threads |-> NoCall]
    /\ step = [t \in Threads |-> "idle"]
    /\ got = [t \in Threads |-> Default]
    /\ seen = [t \in Threads |-> {}]

\* The level that a query or a log call is about.
LevelFor(c, g, m) == IF c.op = "global_log_level" \/ m[c.tag] = Absent THEN g ELSE m[c.tag]

\* Calls in progress see the levels change.
Seeing(g, m) == seen' = [t \in Threads |-> IF Asks(call[t])
                                           THEN seen[t] \cup {LevelFor(call[t], g, m)}
                                           ELSE {}]

Goto(t, s) == step' = [step EXCEPT ![t] = s]
-----------------------------------------------------------------------------
CallLogging(t, c) ==
    /\ step[t] = "idle"
    /\ call' = [call EXCEPT ![t] = c]
    /\ seen' = [seen EXCEPT ![t] = IF Asks(c) THEN {LevelFor(c, global, tags)} ELSE {}]
    /\ Goto(t, "call")
    /\ UNCHANGED <<global, tags, readers, writer, got>>

LockShared(t) == /\ step[t] = "call" /\ Asks(call[t])
                 /\ writer = {}
                 /\ readers' = readers \cup {t}
                 /\ Goto(t, IF call[t].op = "global_log_level" THEN "global" ELSE "find")
                 /\ UNCHANGED <<global, tags, writer, call, got, seen>>

\* data.find(tag)
FindTag(t) == /\ step[t] = "find"
              /\ IF tags[call[t].tag] = Absent
                 THEN Goto(t, "global") /\ UNCHANGED got
                 ELSE /\ got' = [got EXCEPT ![t] = tags[call[t].tag]]
                      /\ Goto(t, "unlock")
              /\ UNCHANGED <<global, tags, readers, writer, call, seen>>

ReadGlobal(t) == /\ step[t] = "global"
                 /\ got' = [got EXCEPT ![t] = global]
                 /\ Goto(t, "unlock")
                 /\ UNCHANGED <<global, tags, readers, writer, call, seen>>

\* The mutex is unlocked, and the caller has the level.
UnlockShared(t) == /\ step[t] = "unlock" /\ Asks(call[t])
                   /\ readers' = readers \ {t}
                   /\ Goto(t, "return")
                   /\ UNCHANGED <<global, tags, writer, call, got, seen>>

\* Mutant of LockAlone: readers are not waited for.
LockAloneSoon(t) == /\ step[t] = "call" /\ call[t] \in Sets
                    /\ writer = {}
                    /\ writer' = {t}
                    /\ Goto(t, "set")
                    /\ UNCHANGED <<global, tags, readers, call, got, seen>>

LockAlone(t) == /\ step[t] = "call" /\ call[t] \in Sets
                /\ writer = {} /\ readers = {}
                /\ writer' = {t}
                /\ Goto(t, "set")
                /\ UNCHANGED <<global, tags, readers, call, got, seen>>

Set(t) ==
    /\ step[t] = "set"
    /\ LET c == call[t]
       IN /\ global' = IF c.op = "set_global_log_level" THEN c.level ELSE global
          /\ tags' = CASE c.op = "set_tag_log_level"   -> [tags EXCEPT ![c.tag] = c.level]
                       [] c.op = "reset_tag_log_level" -> [tags EXCEPT ![c.tag] = Absent]
                       [] OTHER                        -> tags
    /\ Seeing(global', tags')
    /\ Goto(t, "unlock")
    /\ UNCHANGED <<readers, writer, call, got>>

UnlockAlone(t) == /\ step[t] = "unlock" /\ ~Asks(call[t])
                  /\ writer' = {}
                  /\ Goto(t, "return")
                  /\ UNCHANGED <<global, tags, readers, call, got, seen>>

\* What the caller learns when the level is that: a query returns it; operator()
\* and hexdump return false below it, and write and return true otherwise.
Answer(c, level) == IF c.op = "log" THEN ~(c.level < level) ELSE level

\* The call ends, with Answer(call[t], got[t]) if it asked.
ReturnLogging(t) == /\ step[t] = "return"
                    /\ call' = [call EXCEPT ![t] = NoCall]
                    /\ seen' = [seen EXCEPT ![t] = {}]
                    /\ got' = [got EXCEPT ![t] = Default]
                    /\ Goto(t, "idle")
                    /\ UNCHANGED <<global, tags, readers, writer>>

LoggingStep(t) == \/ LockShared(t) \/ FindTag(t) \/ ReadGlobal(t) \/ UnlockShared(t)
                  \/ LockAlone(t) \/ Set(t) \/ UnlockAlone(t) \/ ReturnLogging(t)
-----------------------------------------------------------------------------
(* Properties                                                                   *)

\* Every variable has its type.
LoggingTypeOK ==
    /\ global \in Levels /\ tags \in [Tags -> Levels \cup {Absent}]
    /\ readers \subseteq Threads /\ writer \subseteq Threads
    /\ call \in [Threads -> {NoCall} \cup Queries \cup Logs \cup Sets]
    /\ step \in [Threads -> {"idle", "call", "find", "global", "set", "unlock", "return"}]
    /\ got \in [Threads -> Levels]
    /\ seen \in [Threads -> SUBSET Levels]

\* With the types: a query returns what was the level at some instant between its call and its
\* return, and a message is written exactly if its level passed at such an instant,
\* though the level is that of a tag or, without one, the global one, and others
\* set and reset both meanwhile (logging.cpp:36-41, logger.cpp:50).
AnswersOfSomeInstant ==
    /\ LoggingTypeOK
    /\ \A t \in Threads : step[t] = "return" /\ Asks(call[t]) =>
          \E level \in seen[t] : Answer(call[t], got[t]) = Answer(call[t], level)
=============================================================================
