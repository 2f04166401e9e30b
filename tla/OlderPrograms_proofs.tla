------------------------ MODULE OlderPrograms_proofs ------------------------
(***************************************************************************)
(* Theorems about the two older programs, for every value of the constants *)
(* of OlderPrograms: what a program past its initialisation may rely on,   *)
(* that the mouse does not wait for an inquiry nobody holds, and that the  *)
(* AVR program never gets to its main loop.                                *)
(***************************************************************************)
EXTENDS OlderPrograms, BtController_proofs

-----------------------------------------------------------------------------
(* What is in a queue, in whatever order *)

Elements(q) == {q[i] : i \in 1..Len(q)}

LEMMA ElementsType ==
  ASSUME NEW S, NEW q \in Seq(S)
  PROVE  Elements(q) \subseteq S /\ DOMAIN q = 1..Len(q)
BY ElementOfSeq, LenProperties DEF Elements

LEMMA ElementsTaken ==
  ASSUME NEW S, NEW q \in Seq(S), q # <<>>
  PROVE  /\ Head(q) \in Elements(q) /\ Head(q) \in S /\ Tail(q) \in Seq(S)
         /\ Elements(Tail(q)) \subseteq Elements(q)
         /\ Elements(q) \subseteq Elements(Tail(q)) \cup {Head(q)}
<1> DEFINE t == Tail(q)
           n == Len(q)
<1>1. n \in Nat /\ n # 0
  BY EmptySeq, LenProperties
<1>2. t \in Seq(S) /\ Len(t) = n - 1 /\ \A i \in 1..Len(t) : t[i] = q[i + 1]
  BY HeadTailProperties
<1>3. Head(q) = q[1] /\ Head(q) \in S
  BY HeadTailProperties
<1> HIDE DEF t, n
<1>4. 1 \in 1..n /\ \A i \in 1..Len(t) : i + 1 \in 1..n
  BY <1>1, <1>2
<1>5. \A i \in 1..n : i = 1 \/ (i - 1 \in 1..Len(t) /\ (i - 1) + 1 = i)
  BY <1>1, <1>2
<1>6. Elements(q) = {q[i] : i \in 1..n}
  BY DEF Elements, n
<1>7. Elements(t) \subseteq Elements(q)
  BY <1>2, <1>4, <1>6 DEF Elements
<1>8. ASSUME NEW e \in Elements(q) PROVE e \in Elements(t) \cup {Head(q)}
  <2>1. PICK i \in 1..n : e = q[i]
    BY <1>6
  <2>2. CASE i = 1
    BY <1>3, <2>1, <2>2
  <2>3. CASE i - 1 \in 1..Len(t) /\ (i - 1) + 1 = i
    <3>1. PICK j \in 1..Len(t) : j + 1 = i
      BY <2>3
    <3>2. e = t[j]
      BY <1>2, <2>1, <3>1
    <3> QED
      BY <3>2 DEF Elements
  <2> QED
    BY <1>5, <2>2, <2>3
<1>9. Head(q) \in Elements(q)
  BY <1>3, <1>4, <1>6
<1> QED
  BY <1>2, <1>3, <1>7, <1>8, <1>9 DEF t

LEMMA ElementsAdded ==
  ASSUME NEW S, NEW q \in Seq(S), NEW r \in Seq(S)
  PROVE  /\ q \o r \in Seq(S)
         /\ Elements(q \o r) = Elements(q) \cup Elements(r)
<1>0. PICK s : s = q \o r
  OBVIOUS
<1>1. /\ s \in Seq(S) /\ Len(s) = Len(q) + Len(r) /\ Len(q) \in Nat /\ Len(r) \in Nat
      /\ \A i \in 1..Len(q) + Len(r) : s[i] = IF i <= Len(q) THEN q[i] ELSE r[i - Len(q)]
  BY <1>0, ConcatProperties, LenProperties
<1>2. /\ \A i \in 1..Len(q) : i \in 1..Len(q) + Len(r) /\ i <= Len(q)
      /\ \A i \in 1..Len(r) : /\ Len(q) + i \in 1..Len(q) + Len(r)
                              /\ ~(Len(q) + i <= Len(q)) /\ (Len(q) + i) - Len(q) = i
      /\ \A i \in 1..Len(q) + Len(r) : i <= Len(q) => i \in 1..Len(q)
      /\ \A i \in 1..Len(q) + Len(r) : ~(i <= Len(q)) => i - Len(q) \in 1..Len(r)
  BY <1>1
<1>3. ASSUME NEW e \in Elements(q) PROVE e \in Elements(s)
  BY <1>1, <1>2 DEF Elements
<1>4. ASSUME NEW e \in Elements(r) PROVE e \in Elements(s)
  <2>1. PICK i \in 1..Len(r) : e = r[i]
    BY DEF Elements
  <2>2. s[Len(q) + i] = r[i] /\ Len(q) + i \in 1..Len(s)
    BY <1>1, <1>2
  <2> QED
    BY <2>1, <2>2 DEF Elements
<1>5. ASSUME NEW e \in Elements(s) PROVE e \in Elements(q) \cup Elements(r)
  <2>1. PICK i \in 1..Len(q) + Len(r) : e = s[i]
    BY <1>1 DEF Elements
  <2>2. CASE i <= Len(q)
    BY <1>1, <1>2, <2>1, <2>2 DEF Elements
  <2>3. CASE ~(i <= Len(q))
    BY <1>1, <1>2, <2>1, <2>3 DEF Elements
  <2> QED
    BY <2>2, <2>3
<1>6. Elements(s) = Elements(q) \cup Elements(r)
  BY <1>3, <1>4, <1>5
<1> QED
  BY <1>0, <1>1, <1>6

LEMMA ElementsOfNone == Elements(<<>>) = {}
<1>1. 1..Len(<<>>) = {}
  OBVIOUS
<1> QED
  BY <1>1 DEF Elements

LEMMA ElementsOfOne == ASSUME NEW e PROVE Elements(<<e>>) = {e}
<1>1. Len(<<e>>) = 1 /\ <<e>>[1] = e /\ 1..1 = {1}
  OBVIOUS
<1> QED
  BY <1>1 DEF Elements

LEMMA ElementsAppended ==
  ASSUME NEW S, NEW q \in Seq(S), NEW e \in S
  PROVE  Append(q, e) \in Seq(S) /\ Elements(Append(q, e)) = Elements(q) \cup {e}
<1>0. PICK a : a = Append(q, e)
  OBVIOUS
<1>1. /\ a \in Seq(S) /\ Len(q) \in Nat /\ Len(a) = Len(q) + 1 /\ a[Len(q) + 1] = e
      /\ \A i \in 1..Len(q) : a[i] = q[i]
  BY <1>0
<1>2. \A i \in 1..Len(a) : i \in 1..Len(q) \/ i = Len(q) + 1
  BY <1>1
<1>3. Len(q) + 1 \in 1..Len(a) /\ \A i \in 1..Len(q) : i \in 1..Len(a)
  BY <1>1
<1>4. Elements(a) = Elements(q) \cup {e}
  BY <1>1, <1>2, <1>3 DEF Elements
<1> QED
  BY <1>0, <1>1, <1>4

LEMMA ElementsLeft ==
  ASSUME NEW S, NEW q \in Seq(S), NEW k \in 0..Len(q)
  PROVE  /\ SubSeq(q, k + 1, Len(q)) \in Seq(S)
         /\ Elements(SubSeq(q, k + 1, Len(q))) \subseteq Elements(q)
<1>0. PICK r : r = SubSeq(q, k + 1, Len(q))
  OBVIOUS
<1>1. Len(q) \in Nat /\ k \in Nat /\ k <= Len(q) /\ \A i \in 1..Len(q) : q[i] \in S
  BY ElementOfSeq, LenProperties
<1>2. \A i \in (k + 1)..Len(q) : i \in 1..Len(q) /\ q[i] \in S
  BY <1>1
<1>3. /\ r \in Seq(S)
      /\ Len(r) = IF k + 1 <= Len(q) THEN Len(q) - (k + 1) + 1 ELSE 0
      /\ \A i \in 1..Len(q) - (k + 1) + 1 : r[i] = q[(k + 1) + i - 1]
  <2>1. k + 1 \in Int /\ Len(q) \in Int
    BY <1>1
  <2> QED
    BY <1>0, <1>2, <2>1, SubSeqProperties
<1>4. \A i \in 1..Len(r) : i \in 1..Len(q) - (k + 1) + 1 /\ (k + 1) + i - 1 \in 1..Len(q)
  BY <1>1, <1>3
<1>5. Elements(r) \subseteq Elements(q)
  BY <1>3, <1>4 DEF Elements
<1> QED
  BY <1>0, <1>3, <1>5

-----------------------------------------------------------------------------
(* What the controller adds to the line *)

OnLine == Elements(evtq)
Pending == Elements(cmdq)

Completes(e, op) == e.code = "cmd_complete" /\ e.op = op

AnswersOf(code, op, ok) == [code : {code}, op : {op}, ok : {ok}, n : Grants]

\* The status that refuses an inquiry.
Refusals == AnswersOf("cmd_status", "inquiry", FALSE)

CtlTyped ==
  /\ asking \subseteq Calls /\ setup \subseteq Calls /\ closing \subseteq Handles
  /\ links \in [Handles -> Addrs \cup {ZeroAddr}]
  /\ inquiring \in BOOLEAN /\ owed \in BOOLEAN
  /\ done \subseteq ConfigOps \cup OlderOps

LineTyped == cmdq \in Seq(OlderCommands) /\ evtq \in Seq(OlderEvents) /\ line \in BOOLEAN

LEMMA OlderEventType ==
  /\ Events \subseteq OlderEvents
  /\ \A code \in {"cmd_status", "cmd_complete"}, op \in Ops \cup OlderOps, ok \in BOOLEAN, n \in Grants :
       [code |-> code, op |-> op, ok |-> ok, n |-> n] \in OlderEvents
<1>1. ASSUME NEW code \in {"cmd_status", "cmd_complete"}, NEW op \in Ops \cup OlderOps,
             NEW ok \in BOOLEAN, NEW n \in Grants
      PROVE  [code |-> code, op |-> op, ok |-> ok, n |-> n] \in OlderEvents
  <2>1. CASE op \in Ops
    BY <2>1, EventType DEF OlderEvents
  <2>2. CASE op \in OlderOps
    <3>1. n \in 0..255
      BY ControllerAssumption
    <3> QED
      BY <2>2, <3>1 DEF OlderEvents
  <2> QED
    BY <2>1, <2>2
<1> QED
  BY <1>1 DEF OlderEvents

LEMMA TakeAdds ==
  ASSUME LineTyped, cmdq # <<>>,
         NEW code \in {"cmd_status", "cmd_complete"}, NEW op \in Ops \cup OlderOps, NEW ok \in BOOLEAN,
         NEW more \in Seq(OlderEvents), Take(code, op, ok, more)
  PROVE  /\ LineTyped' /\ owed' \in BOOLEAN /\ UNCHANGED line
         /\ Pending' \subseteq Pending /\ Pending \subseteq Pending' \cup {Head(cmdq)}
         /\ \E r \in OlderEvents :
              r \in AnswersOf(code, op, ok) /\ OnLine' = OnLine \cup {r} \cup Elements(more)
<1>1. PICK n \in Grants :
        /\ evtq' = evtq \o (<<[code |-> code, op |-> op, ok |-> ok, n |-> n]>> \o more)
        /\ owed' = (n = 0)
  BY DEF Take, Send
<1>2. PICK r \in OlderEvents : r = [code |-> code, op |-> op, ok |-> ok, n |-> n]
  BY OlderEventType
<1>3. PICK one \in Seq(OlderEvents) : one = <<r>>
  BY <1>2, SingletonSeq
<1>4. one \o more \in Seq(OlderEvents) /\ Elements(one \o more) = {r} \cup Elements(more)
  <2>1. Elements(one) = {r}
    BY <1>3, ElementsOfOne
  <2>2. one \o more \in Seq(OlderEvents) /\ Elements(one \o more) = Elements(one) \cup Elements(more)
    BY ElementsAdded
  <2> QED
    BY <2>1, <2>2
<1>5. PICK s \in Seq(OlderEvents) : s = one \o more /\ Elements(s) = {r} \cup Elements(more)
  BY <1>4
<1>6. evtq' = evtq \o s
  BY <1>1, <1>2, <1>3, <1>5
<1>7. evtq' \in Seq(OlderEvents) /\ OnLine' = OnLine \cup Elements(s)
  <2>1. evtq \in Seq(OlderEvents)
    BY DEF LineTyped
  <2> QED
    BY <1>6, <2>1, ElementsAdded DEF OnLine
<1>8. /\ cmdq' \in Seq(OlderCommands) /\ line' = line /\ line \in BOOLEAN
      /\ Pending' \subseteq Pending /\ Pending \subseteq Pending' \cup {Head(cmdq)}
  <2>1. cmdq \in Seq(OlderCommands) /\ cmdq' = Tail(cmdq) /\ line' = line /\ line \in BOOLEAN
    BY DEF LineTyped, Take
  <2> QED
    BY <2>1, ElementsTaken DEF Pending
<1>9. r \in AnswersOf(code, op, ok)
  BY <1>1, <1>2 DEF AnswersOf
<1>10. OnLine' = OnLine \cup {r} \cup Elements(more)
  BY <1>5, <1>7
<1> QED
  BY <1>1, <1>7, <1>8, <1>9, <1>10 DEF LineTyped

\* What taking the command c and answering it with r means to what is done.
Effect(c, r) ==
  /\ r.op = c.op
  /\ c.op # "reset" =>
       /\ done \subseteq done' /\ (inquiring => inquiring')
       /\ r.code = "cmd_complete" /\ r.ok /\ c.op \in ConfigOps \cup OlderOps => c.op \in done'
  /\ c.op = "inquiry" => inquiring' \/ r \in Refusals

Answers(c) ==
  /\ LineTyped' /\ CtlTyped' /\ UNCHANGED line
  /\ c \in Pending /\ Pending' \subseteq Pending /\ Pending \subseteq Pending' \cup {c}
  /\ \E r \in OlderEvents, M \in SUBSET OlderEvents :
       /\ Effect(c, r) /\ OnLine' = OnLine \cup {r} \cup M
       /\ \A e \in M : e.code = "conn_complete"

LEMMA OpsApart ==
  /\ \A op \in ConfigOps : op \notin KeyOps /\ op \notin OlderOps /\ op # "inquiry" /\ op \in Ops
  /\ \A op \in KeyOps : op \notin OlderOps /\ op # "inquiry" /\ op \in Ops
  /\ \A op \in {"inquiry", "create_conn", "disconnect", "accept_conn_req", "reject_conn_req"} :
       op \notin ConfigOps /\ op \notin KeyOps /\ op \notin OlderOps /\ op \in Ops
  /\ "reset" \in OlderOps /\ "inquiry" \notin OlderOps
BY DEF Ops, ConfigOps, KeyOps, OlderOps

\* An answer alone, of a command that changes nothing but done and what is stated.
LEMMA AnswersAlone ==
  ASSUME LineTyped, cmdq # <<>>, NEW c, c = Head(cmdq), c.op \in Ops \cup OlderOps,
         NEW code \in {"cmd_status", "cmd_complete"}, NEW ok \in BOOLEAN, Take(code, c.op, ok, <<>>),
         c.op # "reset" =>
           /\ done \subseteq done' /\ (inquiring => inquiring')
           /\ code = "cmd_complete" /\ ok /\ c.op \in ConfigOps \cup OlderOps => c.op \in done',
         c.op = "inquiry" => inquiring' \/ (code = "cmd_status" /\ ~ok),
         owed' \in BOOLEAN => CtlTyped'
  PROVE  Answers(c)
<1>1. PICK more \in Seq(OlderEvents) : Elements(more) = {} /\ Take(code, c.op, ok, more)
  BY EmptySeq, ElementsOfNone
<1>2. /\ LineTyped' /\ owed' \in BOOLEAN /\ UNCHANGED line
      /\ Pending' \subseteq Pending /\ Pending \subseteq Pending' \cup {c}
      /\ \E r \in OlderEvents :
           r \in AnswersOf(code, c.op, ok) /\ OnLine' = OnLine \cup {r} \cup Elements(more)
  BY <1>1, TakeAdds
<1>3. c \in Pending
  BY ElementsTaken DEF Pending, LineTyped
<1>4. PICK r \in OlderEvents : r \in AnswersOf(code, c.op, ok) /\ OnLine' = OnLine \cup {r} \cup {}
  BY <1>1, <1>2
<1>5. Effect(c, r)
  <2>1. r.code = code /\ r.op = c.op /\ r.ok = ok
    BY <1>4 DEF AnswersOf
  <2>2. code = "cmd_status" /\ c.op = "inquiry" /\ ~ok => r \in Refusals
    BY <1>4 DEF Refusals
  <2> QED
    BY <2>1, <2>2 DEF Effect
<1>6. {} \in SUBSET OlderEvents /\ \A e \in {} : e.code = "conn_complete"
  OBVIOUS
<1> QED
  BY <1>2, <1>3, <1>4, <1>5, <1>6 DEF Answers

LEMMA Answered ==
  ASSUME OlderTypeOK, CommandAnswered
  PROVE  UNCHANGED programVars /\ \E c : Answers(c)
<1>0. LineTyped /\ CtlTyped
  BY DEF OlderTypeOK, LineTyped, CtlTyped
<1>1. PICK c \in Waiting : \/ Configure(c) \/ TakeKey(c) \/ Refuse(c) \/ Begin(c) \/ Answer(c)
                           \/ TakeOlder(c)
  BY DEF CommandAnswered, TakeCommand
<1> SUFFICES Answers(c)
  BY DEF CommandAnswered
<1>2. cmdq # <<>> /\ c = Head(cmdq)
  BY DEF Waiting
<1>3. c \in OlderCommands
  BY <1>0, <1>2, ElementsTaken DEF LineTyped
<1>4. /\ c.op \in Ops \cup OlderOps /\ c.addr \in Addrs \cup {ZeroAddr, JunkAddr}
      /\ c.handle \in Handles \cup {NoHandle}
  BY <1>3 DEF OlderCommands
<1>5. CASE Configure(c)
  <2>1. PICK ok \in BOOLEAN : /\ Take("cmd_complete", c.op, ok, <<>>)
                             /\ done' = IF ok THEN done \cup {c.op} ELSE done
    BY <1>5, ControllerAssumption DEF Configure
  <2>2. c.op \in ConfigOps /\ c.op # "inquiry" /\ UNCHANGED <<links, asking, setup, closing, inquiring>>
    BY <1>5, OpsApart DEF Configure
  <2>3. owed' \in BOOLEAN => CtlTyped'
    BY <1>0, <2>1, <2>2 DEF CtlTyped
  <2> QED
    BY <1>0, <1>2, <1>4, <2>1, <2>2, <2>3, AnswersAlone
<1>6. CASE TakeKey(c)
  <2>1. /\ c.op \notin ConfigOps \cup OlderOps /\ c.op # "inquiry"
        /\ Take("cmd_complete", c.op, TRUE, <<>>)
        /\ UNCHANGED <<done, links, asking, setup, closing, inquiring>>
    BY <1>6, OpsApart DEF TakeKey
  <2>2. owed' \in BOOLEAN => CtlTyped'
    BY <1>0, <2>1 DEF CtlTyped
  <2> QED
    BY <1>0, <1>2, <1>4, <2>1, <2>2, AnswersAlone
<1>7. CASE Refuse(c)
  <2>1. /\ Take("cmd_status", c.op, FALSE, <<>>)
        /\ UNCHANGED <<done, links, asking, setup, closing, inquiring>>
    BY <1>7 DEF Refuse
  <2>2. owed' \in BOOLEAN => CtlTyped'
    BY <1>0, <2>1 DEF CtlTyped
  <2> QED
    BY <1>0, <1>2, <1>4, <2>1, <2>2, AnswersAlone
<1>8. CASE Begin(c)
  <2>1. /\ Take("cmd_status", c.op, TRUE, <<>>) /\ inquiring' = (inquiring \/ c.op = "inquiry")
        /\ UNCHANGED <<done, links, asking>>
    BY <1>8 DEF Begin
  <2>2. inquiring' \in BOOLEAN
    BY <2>1
  <2>3. setup' \subseteq Calls
    BY <1>0, <1>4, <1>8 DEF Begin, Disallowed, Calls, LinkTypes, CtlTyped
  <2>4. closing' \subseteq Handles
    BY <1>0, <1>4, <1>8 DEF Begin, Disallowed, Live, CtlTyped
  <2>5. owed' \in BOOLEAN => CtlTyped'
    BY <1>0, <2>1, <2>2, <2>3, <2>4 DEF CtlTyped
  <2>6. (inquiring => inquiring') /\ (c.op = "inquiry" => inquiring') /\ done \subseteq done'
    BY <2>1
  <2> QED
    BY <1>0, <1>2, <1>4, <2>1, <2>5, <2>6, AnswersAlone
<1>9. CASE Answer(c)
  <2>1. PICK r \in asking :
          /\ asking' = asking \ {r}
          /\ \/ Take("cmd_status", c.op, TRUE, <<>>) /\ setup' = setup \cup {r}
             \/ /\ Take("cmd_status", c.op, TRUE, <<ConnComplete(FALSE, FailHandle, r[1], r[2])>>)
                /\ setup' = setup
    BY <1>9 DEF Answer
  <2>2. /\ c.op \in Ops /\ c.op \notin ConfigOps \cup OlderOps /\ c.op # "inquiry"
        /\ UNCHANGED <<done, links, closing, inquiring>>
    BY <1>9, OpsApart DEF Answer
  <2>0. setup' \subseteq Calls /\ asking' \subseteq Calls
    BY <1>0, <2>1 DEF CtlTyped
  <2>3. owed' \in BOOLEAN => CtlTyped'
    BY <1>0, <2>0, <2>2 DEF CtlTyped
  <2>4. CASE Take("cmd_status", c.op, TRUE, <<>>)
    BY <1>0, <1>2, <1>4, <2>2, <2>3, <2>4, AnswersAlone
  <2>5. CASE Take("cmd_status", c.op, TRUE, <<ConnComplete(FALSE, FailHandle, r[1], r[2])>>)
    <3>1. PICK e \in OlderEvents : e = ConnComplete(FALSE, FailHandle, r[1], r[2])
      BY <1>0, ControllerAssumption, EventType, OlderEventType DEF CtlTyped
    <3>2. e.code = "conn_complete"
      BY <3>1 DEF ConnComplete
    <3>3. PICK more \in Seq(OlderEvents) : Elements(more) = {e} /\ Take("cmd_status", c.op, TRUE, more)
      BY <2>5, <3>1, SingletonSeq, ElementsOfOne
    <3>4. /\ LineTyped' /\ owed' \in BOOLEAN /\ UNCHANGED line
          /\ Pending' \subseteq Pending /\ Pending \subseteq Pending' \cup {c}
          /\ \E a \in OlderEvents :
               /\ a \in AnswersOf("cmd_status", c.op, TRUE)
               /\ OnLine' = OnLine \cup {a} \cup Elements(more)
      BY <1>0, <1>2, <1>4, <3>3, TakeAdds
    <3>5. PICK a \in OlderEvents : /\ a.code = "cmd_status" /\ a.op = c.op
                                   /\ OnLine' = OnLine \cup {a} \cup {e}
      BY <3>3, <3>4 DEF AnswersOf
    <3>6. Effect(c, a)
      BY <2>2, <3>5 DEF Effect
    <3>7. c \in Pending
      BY <1>0, <1>2, ElementsTaken DEF Pending, LineTyped
    <3>8. {e} \in SUBSET OlderEvents /\ \A f \in {e} : f.code = "conn_complete"
      BY <3>2
    <3> QED
      BY <1>2, <2>3, <3>4, <3>5, <3>6, <3>7, <3>8 DEF Answers
  <2> QED
    BY <2>1, <2>4, <2>5
<1>10. CASE TakeOlder(c)
  <2>1. PICK ok \in BOOLEAN :
          /\ Take("cmd_complete", c.op, ok, <<>>)
          /\ IF c.op = "reset" /\ ok
               THEN /\ done' = {} /\ links' = [h \in Handles |-> ZeroAddr]
                    /\ asking' = {} /\ setup' = {} /\ closing' = {} /\ inquiring' = FALSE
               ELSE /\ done' = IF ok THEN done \cup {c.op} ELSE done
                    /\ UNCHANGED <<links, asking, setup, closing, inquiring>>
    BY <1>10, ControllerAssumption DEF TakeOlder
  <2>2. c.op \in OlderOps /\ c.op # "inquiry"
    BY <1>10, OpsApart DEF TakeOlder
  <2>3. owed' \in BOOLEAN => CtlTyped'
    BY <1>0, <2>1, <2>2 DEF CtlTyped
  <2> QED
    BY <1>0, <1>2, <1>4, <2>1, <2>2, <2>3, AnswersAlone
<1> QED
  BY <1>1, <1>5, <1>6, <1>7, <1>8, <1>9, <1>10

\* An event that no command asked for: it completes none.
Comes(e) ==
  /\ LineTyped' /\ UNCHANGED <<cmdq, line, done>>
  /\ e.code # "cmd_complete" /\ OnLine' = OnLine \cup {e}

LEMMA SentComes ==
  ASSUME LineTyped, NEW e \in OlderEvents, e.code # "cmd_complete", evtq' = evtq \o <<e>>,
         UNCHANGED <<cmdq, line, done>>
  PROVE  Comes(e)
<1>1. PICK one \in Seq(OlderEvents) : one = <<e>> /\ Elements(one) = {e}
  BY SingletonSeq, ElementsOfOne
<1>2. evtq' = evtq \o one
  BY <1>1
<1>3. evtq' \in Seq(OlderEvents) /\ OnLine' = OnLine \cup Elements(one)
  <2>1. evtq \in Seq(OlderEvents)
    BY DEF LineTyped
  <2> QED
    BY <1>2, <2>1, ElementsAdded DEF OnLine
<1> QED
  BY <1>1, <1>3 DEF Comes, LineTyped

LEMMA Reported ==
  ASSUME LineTyped, NEW e \in Events, e.code # "cmd_complete", Report(e)
  PROVE  Comes(e) /\ UNCHANGED <<done, owed>>
<1>1. e \in OlderEvents
  BY OlderEventType
<1>2. evtq' = evtq \o <<e>> /\ UNCHANGED <<cmdq, line, done, owed>>
  BY DEF Report, Send
<1> QED
  BY <1>1, <1>2, SentComes

\* What an event that comes by itself means to what is known of the inquiry.
Arrives == \E e \in OlderEvents : Comes(e) /\ (inquiring => inquiring' \/ e.code = "inquiry_complete")

LEMMA Arrived ==
  ASSUME OlderTypeOK, EventComes
  PROVE  UNCHANGED programVars /\ CtlTyped' /\ Arrives
<1>0. LineTyped /\ CtlTyped
  BY DEF OlderTypeOK, LineTyped, CtlTyped
<1> SUFFICES CtlTyped' /\ Arrives
  BY DEF EventComes
<1>1. /\ FailHandle \in Handles \cup {NoHandle} /\ Outcomes \subseteq BOOLEAN
      /\ \A s \in setup \cup asking : s \in Calls /\ s[1] \in Addrs
      /\ links \in [Handles -> Addrs \cup {ZeroAddr}]
  BY <1>0, ControllerAssumption DEF CtlTyped, Calls
<1>2. ASSUME NEW e \in Events, e.code # "cmd_complete", Report(e),
             inquiring' = inquiring \/ (inquiring' = FALSE /\ e.code = "inquiry_complete"),
             asking' \subseteq Calls, setup' \subseteq Calls, closing' \subseteq Handles,
             links' \in [Handles -> Addrs \cup {ZeroAddr}]
      PROVE  CtlTyped' /\ Arrives
  <2>1. Comes(e) /\ UNCHANGED <<done, owed>>
    BY <1>0, <1>2, Reported
  <2>2. e \in OlderEvents /\ (inquiring => inquiring' \/ e.code = "inquiry_complete")
    BY <1>2, OlderEventType
  <2>3. inquiring' \in BOOLEAN
    BY <1>0, <1>2 DEF CtlTyped
  <2>4. CtlTyped'
    BY <1>0, <1>2, <2>1, <2>3 DEF CtlTyped
  <2> QED
    BY <2>1, <2>2, <2>4 DEF Arrives
<1>3. asking \subseteq Calls /\ setup \subseteq Calls /\ closing \subseteq Handles
  BY <1>0 DEF CtlTyped
<1>31. \A ok \in BOOLEAN, h \in Handles \cup {NoHandle}, c \in Calls :
            \E e \in Events : e = ConnComplete(ok, h, c[1], c[2]) /\ e.code # "cmd_complete"
  <2> SUFFICES ASSUME NEW ok \in BOOLEAN, NEW h \in Handles \cup {NoHandle}, NEW c \in Calls
               PROVE  \E e \in Events : e = ConnComplete(ok, h, c[1], c[2]) /\ e.code # "cmd_complete"
    OBVIOUS
  <2>1. ConnComplete(ok, h, c[1], c[2]) \in Events
    BY EventType
  <2>2. ConnComplete(ok, h, c[1], c[2]).code # "cmd_complete"
    BY DEF ConnComplete
  <2> QED
    BY <2>1, <2>2
<1>4. CASE CtlGrant
  <2>1. PICK e \in Events : e.code = "cmd_status" /\ evtq' = evtq \o <<e>>
    BY <1>4, EventType DEF CtlGrant, Send, CmdStatus
  <2>2. Comes(e)
    BY <1>0, <1>4, <2>1, OlderEventType, SentComes DEF CtlGrant
  <2>3. CtlTyped' /\ inquiring' = inquiring
    BY <1>0, <1>4 DEF CtlGrant, CtlTyped
  <2> QED
    BY <2>1, <2>2, <2>3, OlderEventType DEF Arrives
<1>5. ASSUME NEW a \in Addrs, FindDevice(a) PROVE CtlTyped' /\ Arrives
  <2>1. InquiryResult(a) \in Events /\ InquiryResult(a).code # "cmd_complete"
    BY EventType DEF InquiryResult
  <2> QED
    BY <1>1, <1>2, <1>3, <1>5, <2>1 DEF FindDevice
<1>6. CASE EndInquiry
  <2>1. PICK ok \in BOOLEAN : Report(InquiryComplete(ok))
    BY <1>1, <1>6 DEF EndInquiry
  <2>2. PICK e \in Events : e = InquiryComplete(ok) /\ e.code = "inquiry_complete"
    BY EventType DEF InquiryComplete
  <2> QED
    BY <1>1, <1>2, <1>3, <1>6, <2>1, <2>2 DEF EndInquiry
<1>7. ASSUME NEW s \in setup, LinkFails(s) PROVE CtlTyped' /\ Arrives
  <2>1. PICK e \in Events : e = ConnComplete(FALSE, FailHandle, s[1], s[2]) /\ e.code # "cmd_complete"
    BY <1>1, <1>31
  <2> QED
    BY <1>1, <1>2, <1>3, <1>7, <2>1 DEF LinkFails
<1>8. ASSUME NEW s \in setup, NEW h \in Handles, LinkUp(s, h) PROVE CtlTyped' /\ Arrives
  <2>1. PICK e \in Events : e = ConnComplete(TRUE, h, s[1], s[2]) /\ e.code # "cmd_complete"
    BY <1>1, <1>31
  <2>2. links' \in [Handles -> Addrs \cup {ZeroAddr}]
    BY <1>1, <1>8 DEF LinkUp
  <2> QED
    BY <1>2, <1>3, <1>8, <2>1, <2>2 DEF LinkUp
<1>9. ASSUME NEW h \in Handles, LinkDown(h) PROVE CtlTyped' /\ Arrives
  <2>1. PICK e \in Events : e = DisconnComplete(TRUE, h) /\ e.code = "disconn_complete"
    BY EventType DEF DisconnComplete
  <2>2. links' \in [Handles -> Addrs \cup {ZeroAddr}]
    BY <1>1, <1>9 DEF LinkDown
  <2> QED
    BY <1>2, <1>3, <1>9, <2>1, <2>2 DEF LinkDown
<1>10. ASSUME NEW h \in Handles, CloseFails(h) PROVE CtlTyped' /\ Arrives
  <2>1. PICK e \in Events : e = DisconnComplete(FALSE, h) /\ e.code = "disconn_complete"
    BY EventType DEF DisconnComplete
  <2> QED
    BY <1>1, <1>2, <1>3, <1>10, <2>1 DEF CloseFails
<1>11. ASSUME NEW r \in asking, CallTimesOut(r) PROVE CtlTyped' /\ Arrives
  <2>1. PICK e \in Events : e = ConnComplete(FALSE, FailHandle, r[1], r[2]) /\ e.code # "cmd_complete"
    BY <1>1, <1>31
  <2> QED
    BY <1>1, <1>2, <1>3, <1>11, <2>1 DEF CallTimesOut
<1>12. ASSUME NEW r \in Calls, RemoteCalls(r) PROVE CtlTyped' /\ Arrives
  <2>1. PICK e \in Events : e = ConnRequest(r[1], r[2]) /\ e.code = "conn_request"
    BY EventType DEF ConnRequest
  <2> QED
    BY <1>1, <1>2, <1>3, <1>12, <2>1 DEF RemoteCalls
<1>13. ASSUME NEW code \in {"pincode_req", "link_key_req"}, NEW a \in Addrs, AskKey(code, a)
       PROVE  CtlTyped' /\ Arrives
  <2>1. PICK e \in Events : e = KeyRequest(code, a) /\ e.code # "cmd_complete"
    BY EventType DEF KeyRequest
  <2> QED
    BY <1>1, <1>2, <1>3, <1>13, <2>1 DEF AskKey
<1>14. CASE ReportOther
  <2>1. PICK e \in Events : e = OtherEvent /\ e.code # "cmd_complete"
    BY EventType DEF OtherEvent
  <2> QED
    BY <1>1, <1>2, <1>3, <1>14, <2>1 DEF ReportOther
<1>15. CASE Spontaneous
  BY <1>5, <1>6, <1>7, <1>8, <1>9, <1>10, <1>11, <1>12, <1>13, <1>14, <1>15
  DEF Spontaneous, Closed, RemoteLeaves
<1> QED
  BY <1>4, <1>15 DEF EventComes

-----------------------------------------------------------------------------
(* The invariants, by what is in the queues *)

ProgramTyped ==
  /\ program \in Programs
  /\ pc \in {"off", "init", "failed", "main", "inquiry", "connect", "exit"}
  /\ step \in 1..Len(Script) /\ starts \in 0..MaxStarts
  /\ opened \in BOOLEAN /\ refused \in BOOLEAN
  /\ peers \in Seq(Addrs) /\ Len(peers) <= NumPeers

Tells(e) == e.code = "cmd_complete" /\ e.ok /\ e.op \in ConfigOps \cup OlderOps

MouseLine ==
  program = "mouse" => /\ \A c \in Pending : c.op # "reset"
                       /\ \A e \in OnLine : Tells(e) => e.op \in done

AvrLine ==
  program = "avr" => /\ line /\ \A c \in Pending : c.op # "write_scan_enable"
                     /\ \A e \in OnLine : ~Completes(e, "write_scan_enable")

InquiryKnown ==
  pc = "inquiry" /\ line /\ ~refused =>
    \/ \E c \in Pending : c.op = "inquiry"
    \/ inquiring
    \/ \E e \in OnLine : e.code = "inquiry_complete" \/ e \in Refusals

ScriptOps == {Script[i].op : i \in DOMAIN Script}

Control ==
  /\ pc \in {"inquiry", "connect", "main"} /\ opened => ScriptOps \subseteq done
  /\ pc = "connect" => peers # <<>>
  /\ program = "mouse" /\ pc = "init" => \A i \in 1..(step - 1) : Script[i].op \in done
  /\ pc # "main" /\ (program = "avr" => pc \in {"off", "init", "failed"} /\ step <= 4)

SetInv == LineTyped /\ CtlTyped /\ ProgramTyped /\ MouseLine /\ AvrLine /\ InquiryKnown /\ Control

LEMMA QueueAsSet ==
  ASSUME NEW S, NEW q \in Seq(S)
  PROVE  /\ \A i \in DOMAIN q : q[i] \in Elements(q)
         /\ \A e \in Elements(q) : \E i \in DOMAIN q : q[i] = e
BY ElementsType DEF Elements

LEMMA InvInSets == OlderInv => SetInv
<1> SUFFICES ASSUME OlderInv PROVE SetInv
  OBVIOUS
<1>0. OlderTypeOK /\ PastInitMeansConfigured /\ InquiryUnderWay /\ AvrNeverStarts
  BY DEF OlderInv, PastInitMeansConfigured
<1>1. LineTyped /\ CtlTyped /\ ProgramTyped
  BY <1>0 DEF OlderTypeOK, LineTyped, CtlTyped, ProgramTyped
<1>2. /\ \A c \in Pending : \E i \in DOMAIN cmdq : cmdq[i] = c
      /\ \A e \in OnLine : \E i \in DOMAIN evtq : evtq[i] = e
      /\ \A i \in DOMAIN cmdq : cmdq[i] \in Pending
      /\ \A i \in DOMAIN evtq : evtq[i] \in OnLine
  BY <1>1, QueueAsSet DEF Pending, OnLine, LineTyped
<1>3. MouseLine
  BY <1>0, <1>2 DEF PastInitMeansConfigured, AnswersHold, Queued, MouseLine, Tells
<1>4. AvrLine
  BY <1>0, <1>2 DEF AvrNeverStarts, AvrWaitsForNothing, Queued, AvrLine, Completes
<1>5. InquiryKnown
  BY <1>0, <1>2 DEF InquiryUnderWay, Queued, InquiryKnown, Refusals, AnswersOf
<1>6. Control
  BY <1>0 DEF PastInitMeansConfigured, AnswersHold, AvrNeverStarts, AvrWaitsForNothing, Control,
              ScriptOps
<1> QED
  BY <1>1, <1>3, <1>4, <1>5, <1>6 DEF SetInv

LEMMA SetsMeanInv == SetInv => OlderInv
<1> SUFFICES ASSUME SetInv PROVE OlderInv
  OBVIOUS
<1>1. LineTyped /\ CtlTyped /\ ProgramTyped /\ MouseLine /\ AvrLine /\ InquiryKnown /\ Control
  BY DEF SetInv
<1>2. /\ \A c \in Pending : \E i \in DOMAIN cmdq : cmdq[i] = c
      /\ \A e \in OnLine : \E i \in DOMAIN evtq : evtq[i] = e
      /\ \A i \in DOMAIN cmdq : cmdq[i] \in Pending
      /\ \A i \in DOMAIN evtq : evtq[i] \in OnLine
  BY <1>1, QueueAsSet DEF Pending, OnLine, LineTyped
<1>3. OlderTypeOK
  BY <1>1 DEF OlderTypeOK, LineTyped, CtlTyped, ProgramTyped
<1>4. program = "mouse" => AnswersHold
  BY <1>1, <1>2 DEF AnswersHold, Queued, MouseLine, Tells, Control
<1>5. AvrNeverStarts
  BY <1>1, <1>2 DEF AvrNeverStarts, AvrWaitsForNothing, Queued, AvrLine, Completes, Control
<1>6. InquiryUnderWay
  BY <1>1, <1>2 DEF InquiryUnderWay, Queued, InquiryKnown, Refusals, AnswersOf
<1>7. PastInitMeansConfigured
  BY <1>1, <1>3, <1>4 DEF PastInitMeansConfigured, Control, ScriptOps
<1> QED
  BY <1>5, <1>6, <1>7 DEF OlderInv

-----------------------------------------------------------------------------
(* The controller's steps *)

LEMMA AnswerKeepsSets ==
  ASSUME SetInv, NEW c, Answers(c), UNCHANGED programVars
  PROVE  SetInv'
<1>1. LineTyped /\ CtlTyped /\ ProgramTyped /\ MouseLine /\ AvrLine /\ InquiryKnown /\ Control
  BY DEF SetInv
<1>2. /\ LineTyped' /\ CtlTyped' /\ line' = line
      /\ c \in Pending /\ Pending' \subseteq Pending /\ Pending \subseteq Pending' \cup {c}
  BY DEF Answers
<1>3. PICK r \in OlderEvents, M \in SUBSET OlderEvents :
        /\ Effect(c, r) /\ OnLine' = OnLine \cup {r} \cup M
        /\ \A e \in M : e.code = "conn_complete"
  BY DEF Answers
<1>4. ProgramTyped'
  BY <1>1 DEF ProgramTyped, programVars, Script
<1>5. program = "mouse" => c.op # "reset" /\ done \subseteq done' /\ (inquiring => inquiring')
  BY <1>1, <1>2, <1>3 DEF MouseLine, Effect
<1>6. \A e \in M : ~Tells(e) /\ ~Completes(e, "write_scan_enable")
  BY <1>3 DEF Tells, Completes
<1>7. MouseLine'
  <2> SUFFICES ASSUME program = "mouse"
               PROVE  /\ \A d \in Pending' : d.op # "reset"
                      /\ \A e \in OnLine' : Tells(e) => e.op \in done'
    BY DEF MouseLine, programVars
  <2>1. Tells(r) => r.op \in done'
    BY <1>3, <1>5 DEF Effect, Tells
  <2> QED
    BY <1>1, <1>2, <1>3, <1>5, <1>6, <2>1 DEF MouseLine
<1>8. AvrLine'
  <2> SUFFICES ASSUME program = "avr"
               PROVE  /\ line /\ \A d \in Pending' : d.op # "write_scan_enable"
                      /\ \A e \in OnLine' : ~Completes(e, "write_scan_enable")
    BY <1>2 DEF AvrLine, programVars
  <2>1. ~Completes(r, "write_scan_enable")
    BY <1>1, <1>2, <1>3 DEF AvrLine, Effect, Completes
  <2> QED
    BY <1>1, <1>2, <1>3, <1>6, <2>1 DEF AvrLine
<1>9. InquiryKnown'
  <2> SUFFICES ASSUME pc = "inquiry", line, ~refused
               PROVE  \/ \E d \in Pending' : d.op = "inquiry"
                      \/ inquiring'
                      \/ \E e \in OnLine' : e.code = "inquiry_complete" \/ e \in Refusals
    BY <1>2 DEF InquiryKnown, programVars
  <2>1. program = "mouse"
    BY <1>1, OlderAssumption DEF Control, ProgramTyped
  <2>2. c.op = "inquiry" => inquiring' \/ r \in Refusals
    BY <1>3 DEF Effect
  <2> QED
    BY <1>1, <1>2, <1>3, <1>5, <2>1, <2>2 DEF InquiryKnown
<1>10. Control'
  <2>1. program = "mouse" \/ program = "avr"
    BY <1>1, OlderAssumption DEF ProgramTyped
  <2>2. UNCHANGED <<program, pc, step, peers, opened, Script, ScriptOps>>
    BY DEF programVars, Script, ScriptOps
  <2> QED
    BY <1>1, <1>5, <2>1, <2>2 DEF Control
<1> QED
  BY <1>2, <1>4, <1>7, <1>8, <1>9, <1>10 DEF SetInv

LEMMA ArrivalKeepsSets ==
  ASSUME SetInv, CtlTyped', Arrives, UNCHANGED programVars
  PROVE  SetInv'
<1>1. LineTyped /\ CtlTyped /\ ProgramTyped /\ MouseLine /\ AvrLine /\ InquiryKnown /\ Control
  BY DEF SetInv
<1>2. PICK e \in OlderEvents : Comes(e) /\ (inquiring => inquiring' \/ e.code = "inquiry_complete")
  BY DEF Arrives
<1>3. /\ LineTyped' /\ Pending' = Pending /\ line' = line /\ done' = done
      /\ OnLine' = OnLine \cup {e} /\ ~Tells(e) /\ ~Completes(e, "write_scan_enable")
  BY <1>2 DEF Comes, Pending, Tells, Completes
<1>4. ProgramTyped'
  BY <1>1 DEF ProgramTyped, programVars, Script
<1>5. MouseLine' /\ AvrLine'
  BY <1>1, <1>3 DEF MouseLine, AvrLine, programVars
<1>6. InquiryKnown'
  BY <1>1, <1>2, <1>3 DEF InquiryKnown, programVars
<1>7. Control'
  <2>1. UNCHANGED <<program, pc, step, peers, opened, Script, ScriptOps>>
    BY DEF programVars, Script, ScriptOps
  <2> QED
    BY <1>1, <1>3, <2>1 DEF Control
<1> QED
  BY <1>3, <1>4, <1>5, <1>6, <1>7 DEF SetInv

-----------------------------------------------------------------------------
(* The programs' steps *)

LEMMA ReceiveReads ==
  ASSUME LineTyped, Receive
  PROVE  /\ line /\ line' = line /\ evtq' \in Seq(OlderEvents) /\ Head(evtq) \in OnLine
         /\ OnLine' \subseteq OnLine /\ OnLine \subseteq OnLine' \cup {Head(evtq)}
<1>1. evtq \in Seq(OlderEvents) /\ evtq # <<>> /\ evtq' = Tail(evtq) /\ line /\ line' = line
  BY DEF LineTyped, Receive
<1> QED
  BY <1>1, ElementsTaken DEF OnLine

LEMMA SendWrites ==
  ASSUME LineTyped, NEW c \in OlderCommands, bt_serial_send(c)
  PROVE  /\ cmdq' \in Seq(OlderCommands) /\ Pending \subseteq Pending'
         /\ Pending' \subseteq Pending \cup {c} /\ (line => c \in Pending')
<1>1. CASE line
  <2>1. cmdq \in Seq(OlderCommands) /\ cmdq' = Append(cmdq, c)
    BY <1>1 DEF LineTyped, bt_serial_send
  <2>2. cmdq' \in Seq(OlderCommands) /\ Pending' = Pending \cup {c}
    BY <2>1, ElementsAppended DEF Pending
  <2> QED
    BY <2>2
<1>2. CASE ~line
  BY <1>2 DEF LineTyped, bt_serial_send, Pending
<1> QED
  BY <1>1, <1>2

LEMMA CommandTypes ==
  /\ \A op \in Ops \cup OlderOps : Cmd(op) \in OlderCommands /\ Cmd(op).op = op
  /\ \A op \in Ops, a \in Addrs : CmdTo(op, a) \in OlderCommands /\ CmdTo(op, a).op = op
BY DEF Cmd, CmdTo, OlderCommands

LEMMA Scripts ==
  /\ Len(MouseScript) = 5 /\ Len(AvrScript) = 5
  /\ DOMAIN MouseScript = 1..5 /\ DOMAIN AvrScript = 1..5
  /\ \A i \in 1..5 : /\ MouseScript[i].op \in ConfigOps \cup OlderOps
                     /\ MouseScript[i].op # "reset" /\ MouseScript[i].awaits = MouseScript[i].op
                     /\ AvrScript[i].op \in ConfigOps \cup OlderOps
  /\ \A i \in 1..4 : AvrScript[i].op # "write_scan_enable"
  /\ AvrScript[4].awaits = "write_scan_enable"
<1>1. \A i \in 1..5 : i = 1 \/ i = 2 \/ i = 3 \/ i = 4 \/ i = 5
  OBVIOUS
<1>2. \A i \in 1..4 : i = 1 \/ i = 2 \/ i = 3 \/ i = 4
  OBVIOUS
<1>3. \A i \in 1..5 : /\ MouseScript[i].op \in ConfigOps \cup OlderOps
                      /\ MouseScript[i].op # "reset" /\ MouseScript[i].awaits = MouseScript[i].op
  BY <1>1 DEF MouseScript, Step, ConfigOps, OlderOps
<1>4. \A i \in 1..5 : AvrScript[i].op \in ConfigOps \cup OlderOps
  BY <1>1 DEF AvrScript, Step, ConfigOps, OlderOps
<1>5. \A i \in 1..4 : AvrScript[i].op # "write_scan_enable"
  BY <1>2 DEF AvrScript, Step
<1>6. AvrScript[4].awaits = "write_scan_enable"
  BY DEF AvrScript
<1>7. /\ Len(MouseScript) = 5 /\ Len(AvrScript) = 5
      /\ DOMAIN MouseScript = 1..5 /\ DOMAIN AvrScript = 1..5
  BY DEF MouseScript, AvrScript
<1> QED
  BY <1>3, <1>4, <1>5, <1>6, <1>7

\* The commands a step of a program may leave on the line besides those that were there.
Harmless(c) ==
  /\ program = "mouse" => c.op # "reset"
  /\ program = "avr" => c.op # "write_scan_enable"

LEMMA ProgramKeepsSets ==
  ASSUME SetInv, UNCHANGED ctlVars, LineTyped', line' = line, program' = program,
         OnLine' \subseteq OnLine, \A c \in Pending' : c \in Pending \/ Harmless(c),
         ProgramTyped', Control', InquiryKnown'
  PROVE  SetInv'
<1>1. LineTyped /\ CtlTyped /\ ProgramTyped /\ MouseLine /\ AvrLine /\ InquiryKnown /\ Control
  BY DEF SetInv
<1>2. CtlTyped' /\ done' = done
  BY <1>1 DEF CtlTyped, ctlVars
<1>3. MouseLine'
  BY <1>1, <1>2 DEF MouseLine, Harmless
<1>4. AvrLine'
  BY <1>1, <1>2 DEF AvrLine, Harmless
<1> QED
  BY <1>2, <1>3, <1>4 DEF SetInv

LEMMA StartKeepsSets ==
  ASSUME SetInv, Start, UNCHANGED ctlVars
  PROVE  SetInv'
<1>1. LineTyped /\ CtlTyped /\ ProgramTyped /\ MouseLine /\ AvrLine /\ InquiryKnown /\ Control
  BY DEF SetInv
<1>2. /\ line' = line /\ program' = program /\ opened' = line /\ line \in BOOLEAN /\ starts' \in 0..MaxStarts
      /\ Script' = Script /\ done' = done /\ (program = "mouse" \/ program = "avr")
  BY <1>1, OlderAssumption DEF Start, LineTyped, ProgramTyped, Script, ctlVars
<1>3. CASE line
  <2>1. /\ pc' = "init" /\ step' = 1 /\ peers' = <<>> /\ refused' = FALSE
        /\ Reopened /\ bt_serial_send(Cmd(Script[1].op))
    BY <1>3 DEF Start, SendStep
  <2>2. PICK k \in 0..Len(evtq) : evtq' = SubSeq(evtq, k + 1, Len(evtq))
    BY <2>1 DEF Reopened
  <2>3. evtq' \in Seq(OlderEvents) /\ OnLine' \subseteq OnLine
    <3>1. evtq \in Seq(OlderEvents)
      BY <1>1 DEF LineTyped
    <3> QED
      BY <2>2, <3>1, ElementsLeft DEF OnLine
  <2>4. PICK c \in OlderCommands : c = Cmd(Script[1].op) /\ Harmless(c)
    <3>1. Script[1].op \in ConfigOps \cup OlderOps
      BY Scripts DEF Script
    <3>2. Cmd(Script[1].op) \in OlderCommands /\ Cmd(Script[1].op).op = Script[1].op
      BY <3>1, OpsApart, CommandTypes
    <3>3. Harmless(Cmd(Script[1].op))
      BY <3>2, Scripts DEF Harmless, Script
    <3> QED
      BY <3>2, <3>3
  <2>5. LineTyped' /\ Pending' \subseteq Pending \cup {c}
    BY <1>1, <1>2, <2>1, <2>3, <2>4, SendWrites DEF LineTyped
  <2>6. ProgramTyped'
    <3>1. peers' \in Seq(Addrs) /\ Len(peers') <= NumPeers
      BY <2>1, OlderAssumption
    <3>2. step' \in 1..Len(Script')
      BY <1>2, <2>1, Scripts DEF Script
    <3> QED
      BY <1>1, <1>2, <2>1, <3>1, <3>2 DEF ProgramTyped
  <2>7. Control'
    <3>1. 1..(step' - 1) = {}
      BY <2>1
    <3>2. step' <= 4
      BY <2>1
    <3> QED
      BY <2>1, <3>1, <3>2 DEF Control
  <2>8. InquiryKnown'
    BY <2>1 DEF InquiryKnown
  <2> QED
    BY <1>2, <2>3, <2>4, <2>5, <2>6, <2>7, <2>8, ProgramKeepsSets
<1>4. CASE ~line
  <2>1. /\ pc' = "inquiry" /\ peers' = <<>> /\ refused' = FALSE /\ evtq' = evtq /\ step' = step
        /\ cmdq' = cmdq
    BY <1>4 DEF Start, BeginInquiry, bt_serial_send
  <2>2. program = "mouse"
    BY <1>1, <1>2, <1>4 DEF AvrLine
  <2>3. LineTyped' /\ OnLine' = OnLine /\ Pending' = Pending
    BY <1>1, <1>2, <2>1 DEF LineTyped, OnLine, Pending
  <2>4. ProgramTyped'
    <3>1. peers' \in Seq(Addrs) /\ Len(peers') <= NumPeers
      BY <2>1, OlderAssumption
    <3> QED
      BY <1>1, <1>2, <2>1, <3>1 DEF ProgramTyped
  <2>5. Control' /\ InquiryKnown'
    BY <1>2, <1>4, <2>1, <2>2 DEF Control, InquiryKnown
  <2> QED
    BY <1>2, <2>3, <2>4, <2>5, ProgramKeepsSets
<1> QED
  BY <1>2, <1>3, <1>4

\* The mouse takes the completion it waits for as what it says.
LEMMA StepTellsTruth ==
  ASSUME SetInv, Receive, Awaited(Head(evtq)), pc = "init"
  PROVE  /\ program = "mouse" => \A i \in 1..step : Script[i].op \in done
         /\ program = "avr" => step \in 1..3
<1>1. LineTyped /\ ProgramTyped /\ MouseLine /\ AvrLine /\ Control
  BY DEF SetInv
<1>2. PICK e \in OnLine : Awaited(e)
  BY <1>1, ReceiveReads
<1>3. step \in Nat /\ step >= 1 /\ step <= 5
  <2>1. Len(Script) = 5
    BY Scripts DEF Script
  <2> QED
    BY <1>1, <2>1 DEF ProgramTyped
<1>4. ASSUME program = "mouse" PROVE \A i \in 1..step : Script[i].op \in done
  <2>1. step \in 1..5 /\ \A i \in 1..step : i \in 1..(step - 1) \/ i = step
    BY <1>3
  <2>2. Script[step].awaits = Script[step].op /\ Script[step].op \in ConfigOps \cup OlderOps
    BY <1>4, <2>1, Scripts DEF Script
  <2>3. Tells(e) /\ e.op = Script[step].op
    BY <1>2, <2>2 DEF Awaited, Tells
  <2>4. Script[step].op \in done
    BY <1>1, <1>4, <2>3 DEF MouseLine
  <2> QED
    BY <1>1, <1>4, <2>1, <2>4 DEF Control
<1>5. ASSUME program = "avr" PROVE step \in 1..3
  <2>1. step # 4
    <3>1. step = 4 => Completes(e, "write_scan_enable")
      BY <1>2, <1>5, Scripts DEF Awaited, Completes, Script
    <3> QED
      BY <1>1, <1>5, <3>1 DEF AvrLine
  <2>2. step <= 4
    BY <1>1, <1>5 DEF Control
  <2> QED
    BY <1>3, <2>1, <2>2
<1> QED
  BY <1>4, <1>5

LEMMA InquiryBegun ==
  ASSUME LineTyped, BeginInquiry, line' = line
  PROVE  /\ cmdq' \in Seq(OlderCommands) /\ \A c \in Pending' : c \in Pending \/ Harmless(c)
         /\ pc' = "inquiry" /\ peers' = <<>> /\ refused' = FALSE /\ InquiryKnown'
<1>1. PICK c \in OlderCommands : c = Cmd("inquiry") /\ c.op = "inquiry"
  BY CommandTypes, OpsApart
<1>2. bt_serial_send(c) /\ pc' = "inquiry" /\ peers' = <<>> /\ refused' = FALSE
  BY <1>1 DEF BeginInquiry
<1>3. /\ cmdq' \in Seq(OlderCommands) /\ Pending \subseteq Pending'
      /\ Pending' \subseteq Pending \cup {c} /\ (line => c \in Pending')
  BY <1>2, SendWrites
<1>4. Harmless(c)
  BY <1>1 DEF Harmless
<1>5. InquiryKnown'
  BY <1>1, <1>3 DEF InquiryKnown
<1> QED
  BY <1>2, <1>3, <1>4, <1>5

LEMMA NoPeersTyped == <<>> \in Seq(Addrs) /\ Len(<<>>) <= NumPeers
BY OlderAssumption

LEMMA StepSucceedsKeepsSets ==
  ASSUME SetInv, StepSucceeds, UNCHANGED ctlVars
  PROVE  SetInv'
<1>1. LineTyped /\ CtlTyped /\ ProgramTyped /\ MouseLine /\ AvrLine /\ InquiryKnown /\ Control
  BY DEF SetInv
<1>2. /\ line /\ line' = line /\ evtq' \in Seq(OlderEvents) /\ OnLine' \subseteq OnLine
      /\ program' = program /\ opened' = opened /\ starts' = starts /\ Script' = Script /\ done' = done
      /\ (program = "mouse" \/ program = "avr")
  BY <1>1, ReceiveReads, OlderAssumption DEF StepSucceeds, ProgramTyped, Script, ctlVars
<1>3. /\ program = "mouse" => \A i \in 1..step : Script[i].op \in done
      /\ program = "avr" => step \in 1..3
  BY StepTellsTruth DEF StepSucceeds
<1>4. Len(Script) = 5 /\ DOMAIN Script = 1..5 /\ step \in 1..5
  BY <1>1, Scripts DEF ProgramTyped, Script
<1>5. CASE step < Len(Script) /\ SendStep(step + 1) /\ UNCHANGED <<peers, refused>>
  <2>1. step + 1 \in 1..5 /\ (program = "avr" => step + 1 \in 1..4) /\ (step + 1) - 1 = step
    BY <1>3, <1>4, <1>5
  <2>2. PICK n \in 1..5 : n = step + 1
    BY <2>1
  <2>3. pc' = "init" /\ step' = n /\ bt_serial_send(Cmd(Script[n].op)) /\ UNCHANGED <<peers, refused>>
    BY <1>5, <2>2 DEF SendStep
  <2>4. Script[n].op \in ConfigOps \cup OlderOps /\ Harmless([op |-> Script[n].op])
    BY <2>1, <2>2, Scripts DEF Script, Harmless
  <2>5. PICK c \in OlderCommands : c = Cmd(Script[n].op) /\ c.op = Script[n].op
    BY <2>4, OpsApart, CommandTypes
  <2>6. Harmless(c)
    BY <2>4, <2>5 DEF Harmless
  <2>7. LineTyped' /\ Pending' \subseteq Pending \cup {c}
    BY <1>1, <1>2, <2>3, <2>5, SendWrites DEF LineTyped
  <2>8. ProgramTyped'
    BY <1>1, <1>2, <1>4, <2>3 DEF ProgramTyped
  <2>9. Control'
    <3>1. program = "mouse" => \A i \in 1..(step' - 1) : Script'[i].op \in done'
      BY <1>2, <1>3, <2>1, <2>2, <2>3
    <3>2. program = "avr" => step' <= 4
      BY <2>1, <2>2, <2>3
    <3> QED
      BY <1>2, <2>3, <3>1, <3>2 DEF Control
  <2>10. InquiryKnown'
    BY <2>3 DEF InquiryKnown
  <2> QED
    BY <1>2, <2>6, <2>7, <2>8, <2>9, <2>10, ProgramKeepsSets
<1>6. CASE step = Len(Script) /\ program = "mouse" /\ BeginInquiry /\ UNCHANGED step
  <2>1. /\ cmdq' \in Seq(OlderCommands) /\ \A c \in Pending' : c \in Pending \/ Harmless(c)
        /\ pc' = "inquiry" /\ peers' = <<>> /\ refused' = FALSE /\ InquiryKnown'
    BY <1>1, <1>2, <1>6, InquiryBegun
  <2>2. LineTyped'
    BY <1>1, <1>2, <2>1 DEF LineTyped
  <2>3. ProgramTyped'
    BY <1>1, <1>2, <1>6, <2>1, NoPeersTyped DEF ProgramTyped
  <2>4. ScriptOps' \subseteq done'
    BY <1>2, <1>3, <1>4, <1>6 DEF ScriptOps
  <2>5. Control'
    BY <1>2, <1>6, <2>1, <2>4 DEF Control
  <2> QED
    BY <1>2, <2>1, <2>2, <2>3, <2>5, ProgramKeepsSets
<1>7. CASE step = Len(Script) /\ program = "avr"
  BY <1>3, <1>4, <1>7
<1> QED
  BY <1>5, <1>6, <1>7 DEF StepSucceeds

LEMMA StepFailsKeepsSets ==
  ASSUME SetInv, StepFails, UNCHANGED ctlVars
  PROVE  SetInv'
<1>1. LineTyped /\ CtlTyped /\ ProgramTyped /\ MouseLine /\ AvrLine /\ InquiryKnown /\ Control
  BY DEF SetInv
<1>2. /\ line /\ line' = line /\ evtq' \in Seq(OlderEvents) /\ OnLine' \subseteq OnLine
      /\ UNCHANGED <<program, step, peers, opened, starts, refused, Script, done>>
  BY <1>1, ReceiveReads DEF StepFails, Script, ctlVars
<1>3. CASE program = "mouse" /\ pc' = "exit" /\ UNCHANGED cmdq
  <2>1. LineTyped' /\ Pending' = Pending
    BY <1>1, <1>2, <1>3 DEF LineTyped, Pending
  <2>2. ProgramTyped' /\ Control' /\ InquiryKnown'
    BY <1>1, <1>2, <1>3 DEF ProgramTyped, Control, InquiryKnown
  <2> QED
    BY <1>2, <2>1, <2>2, ProgramKeepsSets
<1>4. CASE program = "avr" /\ pc' = "failed" /\ bt_serial_send(Cmd("reset"))
  <2>1. PICK c \in OlderCommands : c = Cmd("reset") /\ c.op = "reset"
    BY CommandTypes, OpsApart
  <2>2. LineTyped' /\ Pending' \subseteq Pending \cup {c}
    BY <1>1, <1>2, <1>4, <2>1, SendWrites DEF LineTyped
  <2>3. Harmless(c)
    BY <1>4, <2>1 DEF Harmless
  <2>4. ProgramTyped' /\ Control' /\ InquiryKnown'
    BY <1>1, <1>2, <1>4 DEF ProgramTyped, Control, InquiryKnown
  <2> QED
    BY <1>2, <2>2, <2>3, <2>4, ProgramKeepsSets
<1> QED
  BY <1>3, <1>4 DEF StepFails

\* A step that only reads, sends nothing and stays where it is, unless it ends.
LEMMA ReadingKeepsSets ==
  ASSUME SetInv, UNCHANGED ctlVars, Receive, UNCHANGED <<cmdq, program, step, opened, starts>>,
         pc' \in {pc, "exit"}, InquiryKnown', peers' \in Seq(Addrs), Len(peers') <= NumPeers,
         refused' \in BOOLEAN, pc' = "connect" => peers' = peers, program = "avr" => pc' = pc
  PROVE  SetInv'
<1>1. LineTyped /\ CtlTyped /\ ProgramTyped /\ MouseLine /\ AvrLine /\ InquiryKnown /\ Control
  BY DEF SetInv
<1>2. /\ line' = line /\ evtq' \in Seq(OlderEvents) /\ OnLine' \subseteq OnLine
      /\ UNCHANGED <<Script, ScriptOps, done>>
  BY <1>1, ReceiveReads DEF Script, ScriptOps, ctlVars
<1>3. LineTyped' /\ Pending' = Pending
  BY <1>1, <1>2 DEF LineTyped, Pending
<1>4. ProgramTyped'
  BY <1>1, <1>2 DEF ProgramTyped
<1>5. Control'
  BY <1>1, <1>2 DEF Control
<1> QED
  BY <1>2, <1>3, <1>4, <1>5, ProgramKeepsSets

\* Nobody but the mouse finds devices or connects.
LEMMA OnlyMouse == SetInv /\ pc \in {"inquiry", "connect"} => program = "mouse"
BY OlderAssumption DEF SetInv, ProgramTyped, Control

\* What the mouse reads is not what it waits for: its inquiry is known as before.
LEMMA InquiryStillKnown ==
  ASSUME SetInv, Receive, UNCHANGED <<cmdq, inquiring>>, pc' = pc, refused => refused',
         Head(evtq).code # "inquiry_complete", Head(evtq) \in Refusals => refused'
  PROVE  InquiryKnown'
<1>1. LineTyped /\ InquiryKnown
  BY DEF SetInv
<1>2. line' = line /\ Pending' = Pending /\ OnLine \subseteq OnLine' \cup {Head(evtq)}
  BY <1>1, ReceiveReads DEF Pending
<1> QED
  BY <1>1, <1>2 DEF InquiryKnown

LEMMA PeersStored ==
  ASSUME NEW s \in Seq(Addrs), Len(s) <= NumPeers, NEW a \in Addrs,
         NEW t, t = IF Len(s) < NumPeers THEN Append(s, a) ELSE s
  PROVE  t \in Seq(Addrs) /\ Len(t) <= NumPeers
<1>1. Len(s) \in Nat /\ NumPeers \in Nat /\ Append(s, a) \in Seq(Addrs) /\ Len(Append(s, a)) = Len(s) + 1
  BY OlderAssumption
<1> QED
  BY <1>1

LEMMA ResultsTyped == \A e \in OlderEvents : e.code = "inquiry_result" => e.addr \in Addrs
BY DEF OlderEvents, Events, CmdEvents, InquiryResults, InquiryCompletes, ConnRequests, ConnCompletes,
       DisconnCompletes, KeyRequests, OtherEvents

LEMMA InquiryStepKeepsSets ==
  ASSUME SetInv, UNCHANGED ctlVars,
         StorePeer \/ InquiryFailed \/ InquiryFinished \/ InquiryPassedOver
  PROVE  SetInv'
<1>1. LineTyped /\ CtlTyped /\ ProgramTyped /\ MouseLine /\ AvrLine /\ InquiryKnown /\ Control
  BY DEF SetInv
<1>2. /\ pc = "inquiry" /\ Receive /\ UNCHANGED <<program, step, opened, starts>>
  BY DEF InquiryRead, StorePeer, InquiryFailed, InquiryFinished, InquiryPassedOver
<1>3. /\ line /\ line' = line /\ evtq' \in Seq(OlderEvents) /\ OnLine' \subseteq OnLine
      /\ UNCHANGED <<Script, ScriptOps, done, inquiring>> /\ Head(evtq) \in OlderEvents
      /\ program = "mouse"
  <2>1. Head(evtq) \in OlderEvents
    BY <1>1, <1>2, ElementsTaken DEF LineTyped, Receive
  <2> QED
    BY <1>1, <1>2, <2>1, OnlyMouse, ReceiveReads DEF Script, ScriptOps, ctlVars
<1>4. CASE StorePeer
  <2>1. /\ UNCHANGED <<cmdq, pc, refused>> /\ Head(evtq).code = "inquiry_result"
        /\ peers' = IF Len(peers) < NumPeers THEN Append(peers, Head(evtq).addr) ELSE peers
    BY <1>4 DEF StorePeer
  <2>2. Head(evtq).addr \in Addrs
    BY <1>3, <2>1, ResultsTyped
  <2>3. peers' \in Seq(Addrs) /\ Len(peers') <= NumPeers
    BY <1>1, <2>1, <2>2, PeersStored DEF ProgramTyped
  <2>4. InquiryKnown'
    BY <1>2, <1>3, <2>1, InquiryStillKnown DEF Refusals, AnswersOf
  <2>5. refused' \in BOOLEAN
    BY <1>1, <2>1 DEF ProgramTyped
  <2> QED
    BY <1>2, <1>3, <2>1, <2>3, <2>4, <2>5, ReadingKeepsSets
<1>5. ASSUME BeginInquiry PROVE SetInv'
  <2>1. /\ cmdq' \in Seq(OlderCommands) /\ \A c \in Pending' : c \in Pending \/ Harmless(c)
        /\ pc' = "inquiry" /\ peers' = <<>> /\ refused' = FALSE /\ InquiryKnown'
    BY <1>1, <1>3, <1>5, InquiryBegun
  <2>2. LineTyped'
    BY <1>1, <1>3, <2>1 DEF LineTyped
  <2>3. ProgramTyped'
    BY <1>1, <1>2, <1>3, <2>1, NoPeersTyped DEF ProgramTyped
  <2>4. Control'
    BY <1>1, <1>2, <1>3, <2>1 DEF Control
  <2> QED
    BY <1>2, <1>3, <2>1, <2>2, <2>3, <2>4, ProgramKeepsSets
<1>6. CASE peers # <<>> /\ pc' = "connect" /\ bt_serial_send(CmdTo("create_conn", peers[1]))
           /\ UNCHANGED <<peers, refused>>
  <2>1. peers[1] \in Addrs
    BY <1>1, <1>6, EmptySeq, HeadTailProperties DEF ProgramTyped
  <2>2. PICK c \in OlderCommands : c = CmdTo("create_conn", peers[1]) /\ c.op = "create_conn"
    BY <2>1, CommandTypes, OpsApart
  <2>3. LineTyped' /\ Pending' \subseteq Pending \cup {c}
    BY <1>1, <1>3, <1>6, <2>2, SendWrites DEF LineTyped
  <2>4. Harmless(c)
    BY <2>2 DEF Harmless
  <2>5. ProgramTyped' /\ Control' /\ InquiryKnown'
    BY <1>1, <1>2, <1>3, <1>6 DEF ProgramTyped, Control, InquiryKnown
  <2> QED
    BY <1>2, <1>3, <2>3, <2>4, <2>5, ProgramKeepsSets
<1>7. CASE InquiryPassedOver
  <2>1. /\ UNCHANGED <<cmdq, pc, peers>> /\ Head(evtq).code # "inquiry_complete"
        /\ refused' = (refused \/ (Head(evtq).code = "cmd_status" /\ Head(evtq).op = "inquiry" /\ ~Head(evtq).ok))
    BY <1>7 DEF InquiryPassedOver
  <2>2. Head(evtq) \in Refusals => Head(evtq).code = "cmd_status" /\ Head(evtq).op = "inquiry" /\ ~Head(evtq).ok
    BY DEF Refusals, AnswersOf
  <2>3. refused' \in BOOLEAN /\ (refused => refused') /\ (Head(evtq) \in Refusals => refused')
    BY <2>1, <2>2
  <2>4. InquiryKnown'
    BY <1>2, <1>3, <2>1, <2>3, InquiryStillKnown
  <2> QED
    BY <1>1, <1>2, <1>3, <2>1, <2>3, <2>4, ReadingKeepsSets DEF ProgramTyped
<1> QED
  BY <1>4, <1>5, <1>6, <1>7 DEF InquiryFailed, InquiryFinished

LEMMA ConnectStepKeepsSets ==
  ASSUME SetInv, UNCHANGED ctlVars,
         AnswerKeyRequest \/ ConnectPassedOver \/ ConnectEnds
  PROVE  SetInv'
<1>1. LineTyped /\ CtlTyped /\ ProgramTyped /\ MouseLine /\ AvrLine /\ InquiryKnown /\ Control
  BY DEF SetInv
<1>2. /\ pc = "connect" /\ Receive
      /\ UNCHANGED <<program, step, peers, opened, starts, refused>>
  BY DEF ConnectRead, AnswerKeyRequest, ConnectPassedOver, ConnectEnds
<1>3. /\ line /\ line' = line /\ evtq' \in Seq(OlderEvents) /\ OnLine' \subseteq OnLine
      /\ UNCHANGED <<Script, ScriptOps, done>> /\ program = "mouse"
  BY <1>1, <1>2, OnlyMouse, ReceiveReads DEF Script, ScriptOps, ctlVars
<1>4. ASSUME pc' \in {"connect", "exit"}, cmdq' = cmdq PROVE SetInv'
  <2>1. InquiryKnown'
    BY <1>4 DEF InquiryKnown
  <2> QED
    BY <1>1, <1>2, <1>3, <1>4, <2>1, ReadingKeepsSets DEF ProgramTyped
<1>5. ASSUME NEW code \in {"pincode_req", "link_key_req"}, pc' = pc,
             bt_serial_send(CmdTo(KeyAnswer(code), peers[1]))
      PROVE  SetInv'
  <2>1. peers # <<>> /\ peers \in Seq(Addrs)
    BY <1>1, <1>2 DEF Control, ProgramTyped
  <2>2. peers[1] \in Addrs
    BY <2>1, EmptySeq, HeadTailProperties
  <2>3. KeyAnswer(code) \in KeyOps /\ KeyAnswer(code) \in Ops
    BY OpsApart DEF KeyAnswer, KeyOps
  <2>4. PICK c \in OlderCommands : c = CmdTo(KeyAnswer(code), peers[1]) /\ c.op \in KeyOps
    BY <2>2, <2>3, CommandTypes
  <2>5. LineTyped' /\ Pending' \subseteq Pending \cup {c}
    BY <1>1, <1>3, <1>5, <2>4, SendWrites DEF LineTyped
  <2>6. Harmless(c)
    BY <2>4 DEF Harmless, KeyOps
  <2>7. ProgramTyped' /\ Control' /\ InquiryKnown'
    BY <1>1, <1>2, <1>3, <1>5 DEF ProgramTyped, Control, InquiryKnown
  <2> QED
    BY <1>2, <1>3, <2>5, <2>6, <2>7, ProgramKeepsSets
<1> QED
  BY <1>2, <1>4, <1>5 DEF AnswerKeyRequest, ConnectPassedOver, ConnectEnds

LEMMA OtherStepKeepsSets ==
  ASSUME SetInv, UNCHANGED ctlVars, GarbageSkipped \/ ReadTimesOut
  PROVE  SetInv'
<1>1. LineTyped /\ CtlTyped /\ ProgramTyped /\ MouseLine /\ AvrLine /\ InquiryKnown /\ Control
  BY DEF SetInv
<1>2. CASE GarbageSkipped
  <2>1. pc = "init" /\ Receive /\ UNCHANGED <<cmdq, programVars>>
    BY <1>2 DEF GarbageSkipped
  <2>2. InquiryKnown'
    BY <2>1 DEF InquiryKnown, programVars
  <2> QED
    BY <1>1, <2>1, <2>2, ReadingKeepsSets DEF ProgramTyped, programVars
<1>3. CASE ReadTimesOut
  <2>1. LineTyped' /\ line' = line /\ OnLine' = OnLine /\ Pending' = Pending
    BY <1>1, <1>3 DEF ReadTimesOut, LineTyped, OnLine, Pending, transportVars
  <2>2. program = "mouse" \/ program = "avr"
    BY <1>1, OlderAssumption DEF ProgramTyped
  <2>3. program = "mouse" /\ program' = program
    BY <1>1, <1>3, <2>2 DEF ReadTimesOut, AvrLine
  <2>4. ProgramTyped' /\ Control' /\ InquiryKnown'
    BY <1>1, <1>3, <2>3 DEF ReadTimesOut, ProgramTyped, Control, InquiryKnown, Script
  <2> QED
    BY <2>1, <2>3, <2>4, ProgramKeepsSets
<1> QED
  BY <1>2, <1>3

-----------------------------------------------------------------------------
(* The theorems *)

LEMMA InitInSets == OlderInit => OlderInv
<1> SUFFICES ASSUME OlderInit PROVE OlderInv
  OBVIOUS
<1>1. /\ cmdq = <<>> /\ evtq = <<>> /\ line \in BOOLEAN /\ (program = "avr" => line) /\ program \in Programs /\ pc = "off" /\ step = 1
      /\ peers = <<>> /\ opened = FALSE /\ starts = 0 /\ refused = FALSE
  BY DEF OlderInit, TransportInit
<1>2. LineTyped /\ OnLine = {} /\ Pending = {}
  BY <1>1, EmptySeq, ElementsOfNone DEF LineTyped, OnLine, Pending
<1>3. CtlTyped
  BY DEF OlderInit, CtlInit, CtlTyped
<1>4. ProgramTyped
  <2>1. Len(Script) = 5
    BY Scripts DEF Script
  <2>2. 1 \in 1..Len(Script) /\ 0 \in 0..MaxStarts
    BY <2>1, OlderAssumption
  <2> QED
    BY <1>1, <2>2, NoPeersTyped DEF ProgramTyped
<1>5. MouseLine /\ AvrLine /\ InquiryKnown /\ Control
  BY <1>1, <1>2 DEF MouseLine, AvrLine, InquiryKnown, Control
<1> QED
  BY <1>2, <1>3, <1>4, <1>5, SetsMeanInv DEF SetInv

LEMMA StepKeepsInv == OlderInv /\ [OlderNext]_olderVars => OlderInv'
<1> SUFFICES ASSUME OlderInv, [OlderNext]_olderVars PROVE SetInv'
  BY SetsMeanInv, PTL
<1>1. SetInv /\ OlderTypeOK
  BY InvInSets DEF OlderInv, PastInitMeansConfigured
<1>2. ASSUME Program, UNCHANGED ctlVars PROVE SetInv'
  BY <1>1, <1>2, StepSucceedsKeepsSets, StepFailsKeepsSets, InquiryStepKeepsSets,
     ConnectStepKeepsSets, OtherStepKeepsSets
  DEF Program
<1>3. ASSUME Start, UNCHANGED ctlVars PROVE SetInv'
  BY <1>1, <1>3, StartKeepsSets
<1>4. CASE CommandAnswered
  BY <1>1, <1>4, Answered, AnswerKeepsSets
<1>5. CASE EventComes
  BY <1>1, <1>5, Arrived, ArrivalKeepsSets
<1>6. CASE LineDown
  <2>1. program = "mouse" /\ line' = FALSE /\ UNCHANGED <<cmdq, evtq, ctlVars, programVars>>
    BY <1>6 DEF LineDown, Hangup
  <2>2. LineTyped' /\ OnLine' = OnLine /\ Pending' = Pending
    BY <1>1, <2>1 DEF SetInv, LineTyped, OnLine, Pending
  <2>3. CtlTyped' /\ ProgramTyped' /\ Control'
    BY <1>1, <2>1 DEF SetInv, CtlTyped, ctlVars, ProgramTyped, programVars, Script, Control, ScriptOps
  <2>4. MouseLine' /\ AvrLine' /\ InquiryKnown'
    BY <1>1, <2>1, <2>2 DEF SetInv, MouseLine, AvrLine, InquiryKnown, programVars, ctlVars
  <2> QED
    BY <2>2, <2>3, <2>4 DEF SetInv
<1>7. CASE UNCHANGED olderVars
  <2>1. UNCHANGED <<cmdq, evtq, line, ctlVars, programVars>>
    BY <1>7 DEF olderVars, transportVars
  <2>2. UNCHANGED <<Pending, OnLine, Script, ScriptOps>>
    BY <2>1 DEF Pending, OnLine, programVars, Script, ScriptOps
  <2> QED
    BY <1>1, <2>1, <2>2 DEF SetInv, LineTyped, CtlTyped, ctlVars, ProgramTyped, programVars, MouseLine,
                            AvrLine, InquiryKnown, Control
<1> QED
  BY <1>2, <1>3, <1>4, <1>5, <1>6, <1>7 DEF OlderNext

LEMMA OlderInvHolds == OlderSpec => []OlderInv
BY InitInSets, StepKeepsInv, PTL DEF OlderSpec

\* Whatever a killed predecessor has left on the line and in the controller: a mouse
\* program that has got past its initialisation on a line it opened talks to a
\* controller that has carried out its whole script, and connects to nobody before it
\* has found somebody (bt-mouse.c:14-69, 221-230).
THEOREM ConfiguredPastInit == OlderSpec => []PastInitMeansConfigured
BY OlderInvHolds, PTL DEF OlderInv

\* The mouse does not wait for the end of an inquiry that nobody holds, except after a
\* refusal it has read and passed over (bt-mouse.c:74-118).
THEOREM InquiryIsHeld == OlderSpec => []InquiryUnderWay
BY OlderInvHolds, PTL DEF OlderInv

\* Why the models need nothing of stack-avr.c behind its start-up: with its wait at
\* stack-avr.c:130 no attempt gets there.
LEMMA AvrIsStuck == OlderSpec => []AvrNeverStarts
BY OlderInvHolds, PTL DEF OlderInv

=============================================================================
