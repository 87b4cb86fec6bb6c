------------------------ MODULE DigitalBallotBoxProofs ------------------------
(***************************************************************************)
(* Proofs about the Digital Ballot Box, for any voters, authorizations,    *)
(* ciphertexts, connections and clock values, and boards of any length.    *)
(***************************************************************************)
EXTENDS DigitalBallotBox, SequenceTheorems, TLAPS

-------------------------------------------------------------------------------
(* Boards.                                                                 *)

IsSeq(s) == s \in Seq({s[i] : i \in DOMAIN s})

(* What append_bulletin_internal does to a board that it extends.          *)
LEMMA AppendToBoard ==
    ASSUME NEW s, IsSeq(s), NEW e
    PROVE  /\ Len(s) \in Nat
           /\ DOMAIN s = 1..Len(s)
           /\ Len(Append(s, e)) = Len(s) + 1
           /\ DOMAIN Append(s, e) = 1..Len(s) + 1
           /\ \A i \in 1..Len(s) : Append(s, e)[i] = s[i]
           /\ Append(s, e)[Len(s) + 1] = e
           /\ IsSeq(Append(s, e))
<1> DEFINE t == Append(s, e)
           S == {s[i] : i \in DOMAIN s} \cup {e}
<1>1. s \in Seq(S)
  BY SeqMonotonic DEF IsSeq
<1>2. /\ Len(s) \in Nat
      /\ DOMAIN s = 1..Len(s)
  BY <1>1, LenProperties
<1>3. t \in Seq(S) /\ Len(t) = Len(s) + 1
  BY <1>1, AppendProperties
<1>4. DOMAIN t = 1..Len(s) + 1
  BY <1>3, LenProperties
<1>5. /\ \A i \in 1..Len(s) : t[i] = s[i]
      /\ t[Len(s) + 1] = e
  BY <1>1, AppendProperties
<1>6. S \subseteq {t[i] : i \in DOMAIN t}
  BY <1>2, <1>4, <1>5
<1>7. IsSeq(t)
  BY <1>3, <1>6, SeqMonotonic DEF IsSeq
<1> QED
  BY <1>2, <1>3, <1>4, <1>5, <1>7

(* The bulletins that the actor appends, see BoardSteps.                   *)
NewSubmission(b) ==
    /\ b.type = SUBMISSION
    /\ b.contents.ballot \in SignedBallots
    /\ BuildSubmission(b.contents.ballot)

NewCast(b) ==
    /\ b.type = CAST
    /\ \E i \in DOMAIN board :
          /\ BuildCast(b.contents.cast_intent, i)
          /\ b.contents.ballot = board[i].contents.ballot

NewCustom(b) == b.type \in CustomTypes \ BUILTIN_BULLETINS

NewBulletin(b) ==
    /\ b.prev = LastBulletinHash(board)
    /\ IsBulletin(b)
    /\ NewSubmission(b) \/ NewCast(b) \/ NewCustom(b)

Appends(b) == NewBulletin(b) /\ board' = Append(board, b)

(* A step appends one bulletin, or it leaves the board alone.              *)
LEMMA BoardSteps ==
    ASSUME TypeOK, [Next]_vars
    PROVE  board' = board \/ \E b : Appends(b)
<1>1. CASE UNCHANGED vars
  BY <1>1 DEF vars
<1>2. ASSUME NEW c \in Connections, NEW ballot \in SignedBallots,
             SubmitSignedBallot(c, ballot)
      PROVE  board' = board \/ \E b : Appends(b)
  <2> DEFINE b == Bulletin(SUBMISSION, [ballot |-> ballot])
  <2>1. CASE /\ SubmissionChecks(ballot)
             /\ BuildSubmission(ballot)
             /\ board' = AppendBulletin(board, b)
    <3>1. b.type = SUBMISSION /\ b.contents.ballot = ballot /\ b.timestamp = clock
          /\ b.prev = LastBulletinHash(board)
      BY DEF Bulletin
    <3>2. NewSubmission(b)
      BY <2>1, <3>1, <1>2 DEF NewSubmission
    <3>3. IsBulletin(b)
      BY <3>1, <1>2 DEF IsBulletin, TypeOK, SUBMISSION, CAST, BUILTIN_BULLETINS
    <3>4. board' = Append(board, b)
      BY <2>1, <3>1 DEF AppendBulletin, Extends
    <3> QED
      BY <3>1, <3>2, <3>3, <3>4 DEF Appends, NewBulletin
  <2> QED
    BY <2>1, <1>2 DEF SubmitSignedBallot, Post, Refuse
<1>3. ASSUME NEW c \in Connections, NEW req \in CastReqs, CastReq(c, req)
      PROVE  board' = board \/ \E b : Appends(b)
  <2>1. ASSUME NEW i \in DOMAIN board, BuildCast(req, i),
               board' = AppendBulletin(board,
                            Bulletin(CAST, [ballot |-> board[i].contents.ballot,
                                            cast_intent |-> req]))
        PROVE  \E b : Appends(b)
    <3> DEFINE b == Bulletin(CAST, [ballot |-> board[i].contents.ballot,
                                    cast_intent |-> req])
    <3>1. /\ b.type = CAST
          /\ b.contents.ballot = board[i].contents.ballot
          /\ b.contents.cast_intent = req
          /\ b.timestamp = clock
          /\ b.prev = LastBulletinHash(board)
      BY DEF Bulletin
    <3>2. NewCast(b)
      BY <2>1, <3>1 DEF NewCast
    <3>3. board[i].contents.ballot \in SignedBallots
      BY <2>1 DEF BuildCast, ReferencedSubmission, TypeOK, IsBulletin, BUILTIN_BULLETINS
    <3>4. req.auth \in Auths
      BY <1>3 DEF CastReqs
    <3>5. IsBulletin(b)
      BY <3>1, <3>3, <3>4 DEF IsBulletin, TypeOK, SUBMISSION, CAST, BUILTIN_BULLETINS
    <3>6. board' = Append(board, b)
      BY <2>1, <3>1 DEF AppendBulletin, Extends
    <3> QED
      BY <3>1, <3>2, <3>5, <3>6 DEF Appends, NewBulletin
  <2> QED
    BY <2>1, <1>3 DEF CastReq, Post, Refuse
<1>4. ASSUME NEW type \in CustomTypes \cup BUILTIN_BULLETINS, PostBulletin(type)
      PROVE  board' = board \/ \E b : Appends(b)
  <2> DEFINE b == Bulletin(type, [custom |-> type])
  <2>1. CASE /\ type \notin BUILTIN_BULLETINS
             /\ board' = AppendBulletin(board, b)
    <3>1. b.type = type /\ b.timestamp = clock /\ b.prev = LastBulletinHash(board)
      BY DEF Bulletin
    <3>2. NewCustom(b)
      BY <2>1, <3>1, <1>4 DEF NewCustom
    <3>3. IsBulletin(b)
      BY <3>1, <2>1, <1>4 DEF IsBulletin, TypeOK, CAST, BUILTIN_BULLETINS
    <3>4. board' = Append(board, b)
      BY <2>1, <3>1 DEF AppendBulletin, Extends
    <3> QED
      BY <3>1, <3>2, <3>3, <3>4 DEF Appends, NewBulletin
  <2> QED
    BY <2>1, <1>4 DEF PostBulletin, Post, Refuse
<1> QED
  BY <1>1, <1>2, <1>3, <1>4
  DEF Next, CheckReq, Randomizer, UnexpectedMessage, ProvideVAConnection, CloseSession,
      DropSession, ListSessions, Restart, SystemTime

(* What a step does to the board, position by position.                    *)
LEMMA Appended ==
    ASSUME TypeOK, NEW b, Appends(b)
    PROVE  /\ Len(board) \in Nat
           /\ DOMAIN board = 1..Len(board)
           /\ Len(board') = Len(board) + 1
           /\ DOMAIN board' = 1..Len(board) + 1
           /\ \A i \in 1..Len(board) : board'[i] = board[i]
           /\ board'[Len(board) + 1] = b
           /\ IsSeq(board')
<1>1. IsSeq(board)
  BY DEF IsSeq, TypeOK
<1> QED
  BY <1>1, AppendToBoard DEF Appends

(* Trackers that resolve go on resolving: a request stays a request.       *)
LEMMA RequestsStay ==
    ASSUME TypeOK, [Next]_vars
    PROVE  CheckReqs \subseteq CheckReqs'
<1>1. Trackers \subseteq Trackers'
  <2>1. CASE board' = board
    BY <2>1 DEF Trackers
  <2>2. ASSUME NEW b, Appends(b)
        PROVE  Trackers \subseteq Trackers'
    <3>1. \A i \in DOMAIN board : i \in DOMAIN board' /\ board'[i] = board[i]
      BY <2>2, Appended
    <3> QED
      BY <3>1 DEF Trackers
  <2> QED
    BY <2>1, <2>2, BoardSteps
<1> QED
  BY <1>1 DEF CheckReqs

(* Replies speak of the board as it is: a tracker is that of a bulletin, a *)
(* confirmation is for a ballot whose submission and cast are both there,  *)
(* and a request that is forwarded is one that was received.               *)
LEMMA Replies ==
    ASSUME TypeOK, Next
    PROVE  /\ output'.type = "ReturnBallotTracker" => output'.tracker \in Trackers'
           /\ output'.type = "CastConf" /\ output'.ok =>
                 \E i \in GetBulletin(board', output'.ballot_sub_tracker),
                    j \in GetBulletin(board', output'.ballot_cast_tracker) :
                       /\ board'[i].type = SUBMISSION
                       /\ board'[j].type = CAST
                       /\ board'[j].contents.ballot = board'[i].contents.ballot
           /\ output'.type = "FwdCheckReq" => output'.message \in CheckReqs
<1> DEFINE Replied ==
               /\ output'.type = "ReturnBallotTracker" => output'.tracker \in Trackers'
               /\ output'.type = "CastConf" /\ output'.ok =>
                     \E i \in GetBulletin(board', output'.ballot_sub_tracker),
                        j \in GetBulletin(board', output'.ballot_cast_tracker) :
                           /\ board'[i].type = SUBMISSION
                           /\ board'[j].type = CAST
                           /\ board'[j].contents.ballot = board'[i].contents.ballot
               /\ output'.type = "FwdCheckReq" => output'.message \in CheckReqs
<1> SUFFICES Replied
  OBVIOUS
<1>1. IsSeq(board)
  BY DEF TypeOK, IsSeq
<1>2. ASSUME NEW c \in Connections, NEW ballot \in SignedBallots,
             SubmitSignedBallot(c, ballot)
      PROVE  Replied
  <2> DEFINE b == Bulletin(SUBMISSION, [ballot |-> ballot])
  <2>1. CASE Post(b, TrackerMsg(c, TRUE, Hash(b)))
    <3>1. b.prev = LastBulletinHash(board)
      BY DEF Bulletin
    <3> HIDE DEF b
    <3>2. board' = Append(board, b) /\ output' = TrackerMsg(c, TRUE, Hash(b))
      BY <2>1, <3>1 DEF Post, AppendBulletin, Extends
    <3>3. Hash(b) \in Trackers'
      BY <1>1, <3>2, AppendToBoard DEF Trackers
    <3> QED
      BY <3>2, <3>3 DEF TrackerMsg
  <2>2. CASE Refuse(TrackerMsg(c, FALSE, NoHash))
    BY <2>2 DEF Refuse, TrackerMsg, Trackers
  <2> QED
    BY <1>2, <2>1, <2>2 DEF SubmitSignedBallot
<1>3. ASSUME NEW c \in Connections, NEW req \in CastReqs, CastReq(c, req)
      PROVE  Replied
  <2>1. ASSUME NEW i \in DOMAIN board, BuildCast(req, i),
               LET b == Bulletin(CAST, [ballot |-> board[i].contents.ballot,
                                        cast_intent |-> req])
               IN  Post(b, CastConf(c, TRUE, req.ballot_tracker, Hash(b)))
        PROVE  Replied
    <3> DEFINE b == Bulletin(CAST, [ballot |-> board[i].contents.ballot,
                                    cast_intent |-> req])
               n == Len(board)
    <3>1. /\ b.prev = LastBulletinHash(board)
          /\ b.type = CAST
          /\ b.contents.ballot = board[i].contents.ballot
      BY DEF Bulletin
    <3>2. Post(b, CastConf(c, TRUE, req.ballot_tracker, Hash(b)))
      BY <2>1
    <3> HIDE DEF b
    <3>3. /\ board' = Append(board, b)
          /\ output' = CastConf(c, TRUE, req.ballot_tracker, Hash(b))
      BY <3>1, <3>2 DEF Post, AppendBulletin, Extends
    <3>4. /\ n \in Nat
          /\ n + 1 \in DOMAIN board'
          /\ board'[n + 1] = b
          /\ i \in DOMAIN board'
          /\ board'[i] = board[i]
      BY <1>1, <3>3, AppendToBoard
    <3>5. board[i].type = SUBMISSION /\ Hash(board[i]) = req.ballot_tracker
      BY <2>1 DEF BuildCast, ReferencedSubmission, GetBulletin
    <3>6. /\ i \in GetBulletin(board', req.ballot_tracker)
          /\ n + 1 \in GetBulletin(board', Hash(b))
      BY <3>4, <3>5 DEF GetBulletin
    <3>7. /\ output'.type = "CastConf"
          /\ output'.ballot_sub_tracker = req.ballot_tracker
          /\ output'.ballot_cast_tracker = Hash(b)
      BY <3>3 DEF CastConf
    <3> QED
      BY <3>1, <3>4, <3>5, <3>6, <3>7
  <2>2. CASE Refuse(CastConf(c, FALSE, req.ballot_tracker, NoHash))
    BY <2>2 DEF Refuse, CastConf
  <2> QED
    BY <1>3, <2>1, <2>2 DEF CastReq
<1>4. ASSUME NEW c \in Connections, NEW req \in CheckReqs, CheckReq(c, req)
      PROVE  Replied
  BY <1>4 DEF CheckReq, Error
<1>5. ASSUME NEW c \in Connections, NEW msg \in Randomizers, Randomizer(c, msg)
      PROVE  Replied
  BY <1>5 DEF Randomizer, DropSession, Error
<1>6. ASSUME NEW c \in Connections, NEW va \in Connections, ProvideVAConnection(c, va)
      PROVE  Replied
  <2>1. CASE /\ sessions[c].state = "AwaitingVAConnection"
             /\ output' = [type |-> "FwdCheckReq", to |-> va,
                           message |-> sessions[c].check_req]
    <3>1. sessions[c] \in [state : SessionStates \ {"None"}, check_req : CheckReqs]
      BY <2>1 DEF TypeOK, NoSession
    <3> QED
      BY <2>1, <3>1
  <2> QED
    BY <1>6, <2>1 DEF ProvideVAConnection, DropSession, Error
<1>7. ASSUME NEW c \in Connections, UnexpectedMessage(c) \/ CloseSession(c)
      PROVE  Replied
  BY <1>7 DEF UnexpectedMessage, DropSession, CloseSession, Error
<1>8. ASSUME NEW type \in CustomTypes \cup BUILTIN_BULLETINS, PostBulletin(type)
      PROVE  Replied
  BY <1>8 DEF PostBulletin, Post, Refuse, Error
<1>9. CASE ListSessions \/ Restart \/ SystemTime
  BY <1>9 DEF ListSessions, Restart, SystemTime, NoOutput
<1> QED
  BY <1>2, <1>3, <1>4, <1>5, <1>6, <1>7, <1>8, <1>9 DEF Next

-------------------------------------------------------------------------------
(* The types are those the specification gives: the board only ever holds  *)
(* bulletins the actor can have built, and a session a received request.   *)

LEMMA TypeInit == Init => TypeOK
<1> SUFFICES ASSUME Init PROVE TypeOK
  OBVIOUS
<1>1. board = << >> /\ DOMAIN board = {}
  BY DEF Init
<1>2. board \in Seq({board[i] : i \in DOMAIN board})
  BY <1>1, EmptySeq
<1> QED
  BY <1>1, <1>2 DEF Init, TypeOK

LEMMA TypeStep == TypeOK /\ [Next]_vars => TypeOK'
<1> SUFFICES ASSUME TypeOK, [Next]_vars PROVE TypeOK'
  OBVIOUS
<1>1. /\ board' \in Seq({board'[i] : i \in DOMAIN board'})
      /\ \A i \in DOMAIN board' : IsBulletin(board'[i])
  <2>1. CASE board' = board
    BY <2>1 DEF TypeOK
  <2>2. ASSUME NEW b, Appends(b)
        PROVE  <1>1!1 /\ <1>1!2
    <3>1. \A i \in DOMAIN board' : IsBulletin(board'[i])
      BY <2>2, Appended DEF Appends, NewBulletin, TypeOK
    <3> QED
      BY <2>2, <3>1, Appended DEF IsSeq
  <2> QED
    BY <2>1, <2>2, BoardSteps
<1> DEFINE Stored == {NoSession} \cup [state : SessionStates \ {"None"}, check_req : CheckReqs]
<1>2. sessions \in [Connections -> Stored']
  BY RequestsStay DEF TypeOK
<1>3. ASSUME NEW c \in Connections, sessions' = [sessions EXCEPT ![c] = NoSession]
      PROVE  sessions' \in [Connections -> Stored']
  BY <1>2, <1>3
<1>4. ASSUME NEW c \in Connections, NEW req \in CheckReqs, CheckReq(c, req)
      PROVE  sessions' \in [Connections -> Stored']
  <2>1. Session("AwaitingVAConnection", req) \in Stored'
    BY RequestsStay DEF Session, SessionStates
  <2> QED
    BY <1>2, <1>4, <2>1 DEF CheckReq
<1>5. ASSUME NEW c \in Connections, NEW state \in SessionStates \ {"None"},
             sessions[c].state # "None",
             sessions' = [sessions EXCEPT ![c].state = state]
      PROVE  sessions' \in [Connections -> Stored']
  <2>1. sessions[c] \in [state : SessionStates \ {"None"}, check_req : CheckReqs']
    BY <1>2, <1>5 DEF NoSession
  <2>2. [sessions[c] EXCEPT !.state = state] \in Stored'
    BY <2>1
  <2>3. sessions' = [sessions EXCEPT ![c] = [sessions[c] EXCEPT !.state = state]]
    BY <1>5
  <2> QED
    BY <1>2, <2>2, <2>3
<1>6. sessions' \in [Connections -> Stored']
  <2>1. ASSUME NEW c \in Connections, NEW va \in Connections, ProvideVAConnection(c, va)
        PROVE  sessions' \in [Connections -> Stored']
    BY <1>3, <1>5, <2>1 DEF ProvideVAConnection, DropSession, SessionStates
  <2>2. ASSUME NEW c \in Connections, NEW msg \in Randomizers, Randomizer(c, msg)
        PROVE  sessions' \in [Connections -> Stored']
    BY <1>3, <1>5, <2>2 DEF Randomizer, DropSession, SessionStates
  <2>3. CASE sessions' = [c \in Connections |-> NoSession]
    BY <2>3
  <2>4. CASE sessions' = sessions
    BY <1>2, <2>4
  <2> QED
    BY <1>3, <1>4, <2>1, <2>2, <2>3, <2>4
    DEF Next, vars, SubmitSignedBallot, CastReq, UnexpectedMessage, DropSession,
        CloseSession, PostBulletin, ListSessions, Restart, SystemTime
<1>7. clock' \in Times
  BY DEF TypeOK, Next, vars, SubmitSignedBallot, CastReq, CheckReq, ProvideVAConnection,
         Randomizer, UnexpectedMessage, DropSession, CloseSession, PostBulletin,
         ListSessions, Restart, SystemTime
<1> QED
  BY <1>1, <1>6, <1>7 DEF TypeOK

(* The board holds only bulletins of the actor's making, sessions only     *)
(* requests the actor received.                                            *)
THEOREM TypeCorrect == Spec => []TypeOK
<1> QED
  BY TypeInit, TypeStep, PTL DEF Spec

-------------------------------------------------------------------------------
(* The hash chain.  That trackers are unique needs the chain: equal        *)
(* bulletins carry equal hashes of their predecessors, so that the         *)
(* predecessors are equal as well.                                         *)

LEMMA HashIsNotNoHash == \A b : Hash(b) # NoHash
<1> TAKE b
<1>1. Len(Hash(b)) = 1 /\ Len(NoHash) = 0
  BY DEF Hash, NoHash
<1> QED
  BY <1>1

LEMMA ChainInit == Init => ChainIsValid
  BY DEF Init, ChainIsValid, ValidateChain

LEMMA ChainStep == TypeOK /\ ChainIsValid /\ [Next]_vars => ChainIsValid'
<1> SUFFICES ASSUME TypeOK, ChainIsValid, [Next]_vars PROVE ChainIsValid'
  OBVIOUS
<1>1. CASE board' = board
  BY <1>1 DEF ChainIsValid, ValidateChain
<1>2. ASSUME NEW b, Appends(b)
      PROVE  ChainIsValid'
  <2> DEFINE n == Len(board)
  <2>1. /\ n \in Nat
        /\ DOMAIN board = 1..n
        /\ DOMAIN board' = 1..n + 1
        /\ \A i \in 1..n : board'[i] = board[i]
        /\ board'[n + 1] = b
    BY <1>2, Appended
  <2>2. b.prev = IF n + 1 = 1 THEN NoHash ELSE Hash(board[n])
    <3>1. n = 0 <=> board = << >>
      BY <2>1, EmptySeq DEF TypeOK
    <3> QED
      BY <1>2, <2>1, <3>1 DEF Appends, NewBulletin, LastBulletinHash
  <2>3. ValidateChain(board')
    BY <2>1, <2>2 DEF ChainIsValid, ValidateChain
  <2>4. ASSUME NEW j \in 1..n
        PROVE  board[j] # b
    <3> SUFFICES ASSUME board[j] = b PROVE FALSE
      OBVIOUS
    <3>1. board[j].prev = IF j = 1 THEN NoHash ELSE Hash(board[j - 1])
      BY <2>1 DEF ChainIsValid, ValidateChain
    <3>2. n # 0
      BY <2>1
    <3>3. CASE j = 1
      BY <2>1, <2>2, <3>1, <3>2, <3>3, HashIsNotNoHash
    <3>4. CASE j # 1
      <4>1. Hash(board[j - 1]) = Hash(board[n])
        BY <2>1, <2>2, <3>1, <3>2, <3>4
      <4>2. j - 1 = n
        BY <2>1, <3>2, <3>4, <4>1 DEF ChainIsValid
      <4> QED
        BY <2>1, <4>2
    <3> QED
      BY <3>3, <3>4
  <2>5. ASSUME NEW i \in DOMAIN board', NEW j \in DOMAIN board',
               Hash(board'[i]) = Hash(board'[j])
        PROVE  i = j
    <3>1. board'[i] = board'[j]
      BY <2>5 DEF Hash
    <3>2. CASE i \in 1..n /\ j \in 1..n
      BY <2>1, <2>5, <3>2 DEF ChainIsValid
    <3> QED
      BY <2>1, <2>4, <3>1, <3>2
  <2> QED
    BY <2>3, <2>5 DEF ChainIsValid
<1> QED
  BY <1>1, <1>2, BoardSteps

(* The board passes validate_chain at all times, and a tracker resolves to *)
(* one bulletin at most: append_bulletin_internal keeps the chain.         *)
THEOREM ChainAlwaysValid == Spec => []ChainIsValid
<1> QED
  BY TypeInit, TypeStep, ChainInit, ChainStep, PTL DEF Spec

-------------------------------------------------------------------------------
(* Voters.                                                                 *)

(* What a step adds to the submissions and casts of a voter.               *)
LEMMA VoterSteps ==
    ASSUME TypeOK, NEW b, Appends(b), NEW v, NEW type
    PROVE  /\ OfVoter(board, type, v) \subseteq 1..Len(board)
           /\ OfVoter(board', type, v) =
                  OfVoter(board, type, v) \cup
                  {i \in {Len(board) + 1} : /\ b.type = type
                                            /\ b.contents.ballot.auth.voter_pseudonym = v}
           /\ ~(b.type = type /\ b.contents.ballot.auth.voter_pseudonym = v) =>
                  OfVoter(board', type, v) = OfVoter(board, type, v)
  BY Appended DEF OfVoter

(* The cast request, the submission it refers to and the ballot it casts   *)
(* are of one voter.                                                       *)
LEMMA CastOfVoter ==
    ASSUME TypeOK, NEW b, NewCast(b)
    PROVE  LET v == b.contents.ballot.auth.voter_pseudonym
           IN  /\ OfVoter(board, CAST, v) = {}
               /\ b.contents.ballot.auth = b.contents.cast_intent.auth
               /\ \E j \in OfVoter(board, SUBMISSION, v) :
                     /\ board[j].contents.ballot = b.contents.ballot
                     /\ \A k \in OfVoter(board, SUBMISSION, v) : k <= j
<1> DEFINE req == b.contents.cast_intent
<1>1. PICK i \in DOMAIN board : BuildCast(req, i) /\ b.contents.ballot = board[i].contents.ballot
  BY DEF NewCast
<1>2. board[i].contents.ballot.auth = req.auth
  BY <1>1 DEF BuildCast, ReferencedSubmission
<1> QED
  BY <1>1, <1>2 DEF BuildCast, NoPreviousCast, MostRecentSubmission

LEMMA VotersInit == Init => AtMostOneCast /\ CastIsLatestSubmission /\ UniqueCiphertexts
  BY DEF Init, AtMostOneCast, CastIsLatestSubmission, UniqueCiphertexts, Casts, OfVoter

LEMMA OneCastStep == TypeOK /\ AtMostOneCast /\ [Next]_vars => AtMostOneCast'
<1> SUFFICES ASSUME TypeOK, AtMostOneCast, [Next]_vars PROVE AtMostOneCast'
  OBVIOUS
<1>1. CASE board' = board
  BY <1>1 DEF AtMostOneCast, Casts
<1>2. ASSUME NEW b, Appends(b), NEW v \in Voters, NEW i \in Casts(v)', NEW j \in Casts(v)'
      PROVE  i = j
  <2>1. CASE b.type # CAST
    BY <1>2, <2>1, VoterSteps DEF AtMostOneCast, Casts
  <2>2. CASE b.type = CAST
    <3>1. NewCast(b)
      BY <1>2, <2>2 DEF Appends, NewBulletin, NewSubmission, NewCustom, CAST, SUBMISSION,
                        BUILTIN_BULLETINS
    <3>2. CASE b.contents.ballot.auth.voter_pseudonym = v
      <4>1. OfVoter(board, CAST, v) = {}
        BY <3>1, <3>2, CastOfVoter
      <4>2. OfVoter(board', CAST, v) \subseteq {Len(board) + 1}
        BY <1>2, <4>1, VoterSteps
      <4> QED
        BY <1>2, <4>2 DEF Casts
    <3>3. CASE b.contents.ballot.auth.voter_pseudonym # v
      BY <1>2, <3>3, VoterSteps DEF AtMostOneCast, Casts
    <3> QED
      BY <3>2, <3>3
  <2> QED
    BY <2>1, <2>2
<1> QED
  BY <1>1, <1>2, BoardSteps DEF AtMostOneCast

LEMMA LatestStep == TypeOK /\ CastIsLatestSubmission /\ [Next]_vars => CastIsLatestSubmission'
<1> SUFFICES ASSUME TypeOK, CastIsLatestSubmission, [Next]_vars PROVE CastIsLatestSubmission'
  OBVIOUS
<1> DEFINE Latest(bb, i, j, v) ==
        /\ j < i
        /\ bb[j].contents.ballot = bb[i].contents.ballot
        /\ bb[j].contents.ballot.auth = bb[i].contents.cast_intent.auth
        /\ \A k \in OfVoter(bb, SUBMISSION, v) : k <= j
<1>1. CASE board' = board
  BY <1>1 DEF CastIsLatestSubmission, Casts, Submissions
<1>2. ASSUME NEW b, Appends(b), NEW v \in Voters, NEW i \in OfVoter(board', CAST, v)
      PROVE  \E j \in OfVoter(board', SUBMISSION, v) : Latest(board', i, j, v)
  <2> DEFINE n == Len(board)
  <2>1. n \in Nat /\ board'[n + 1] = b /\ \A k \in 1..n : board'[k] = board[k]
    BY <1>2, Appended
  <2>2. /\ OfVoter(board, CAST, v) \subseteq 1..n
        /\ OfVoter(board, SUBMISSION, v) \subseteq 1..n
    BY <1>2, VoterSteps
  <2>3. CASE i = n + 1
    <3>1. b.type = CAST /\ b.contents.ballot.auth.voter_pseudonym = v
      BY <2>1, <2>3 DEF OfVoter
    <3>2. NewCast(b)
      BY <1>2, <3>1 DEF Appends, NewBulletin, NewSubmission, NewCustom, CAST, SUBMISSION,
                        BUILTIN_BULLETINS
    <3>3. OfVoter(board', SUBMISSION, v) = OfVoter(board, SUBMISSION, v)
      BY <1>2, <3>1, VoterSteps DEF CAST, SUBMISSION
    <3>4. PICK j \in OfVoter(board, SUBMISSION, v) :
             /\ board[j].contents.ballot = b.contents.ballot
             /\ b.contents.ballot.auth = b.contents.cast_intent.auth
             /\ \A k \in OfVoter(board, SUBMISSION, v) : k <= j
      BY <3>1, <3>2, CastOfVoter
    <3>5. Latest(board', i, j, v)
      BY <2>1, <2>2, <2>3, <3>3, <3>4
    <3> QED
      BY <3>3, <3>5
  <2>4. CASE i # n + 1
    <3>1. i \in OfVoter(board, CAST, v)
      BY <1>2, <2>4, VoterSteps
    <3>2. PICK j \in OfVoter(board, SUBMISSION, v) : Latest(board, i, j, v)
      BY <3>1 DEF CastIsLatestSubmission, Casts, Submissions
    <3>3. OfVoter(board', SUBMISSION, v) = OfVoter(board, SUBMISSION, v)
      <4>1. CASE b.type # SUBMISSION
        BY <1>2, <4>1, VoterSteps
      <4>2. CASE b.type = SUBMISSION
        <5>1. NewSubmission(b)
          BY <1>2, <4>2 DEF Appends, NewBulletin, NewCast, NewCustom, CAST, SUBMISSION,
                            BUILTIN_BULLETINS
        <5>2. b.contents.ballot.auth.voter_pseudonym # v
          BY <3>1, <5>1 DEF NewSubmission, BuildSubmission, NoPreviousCast
        <5> QED
          BY <1>2, <5>2, VoterSteps
      <4> QED
        BY <4>1, <4>2
    <3>4. Latest(board', i, j, v)
      BY <2>1, <2>2, <3>1, <3>2, <3>3
    <3> QED
      BY <3>2, <3>3, <3>4
  <2> QED
    BY <2>3, <2>4
<1> QED
  BY <1>1, <1>2, BoardSteps DEF CastIsLatestSubmission, Casts, Submissions

LEMMA CiphertextStep == TypeOK /\ UniqueCiphertexts /\ [Next]_vars => UniqueCiphertexts'
<1> SUFFICES ASSUME TypeOK, UniqueCiphertexts, [Next]_vars PROVE UniqueCiphertexts'
  OBVIOUS
<1>1. CASE board' = board
  BY <1>1 DEF UniqueCiphertexts
<1>2. ASSUME NEW b, Appends(b)
      PROVE  UniqueCiphertexts'
  <2> DEFINE n == Len(board)
  <2>1. /\ n \in Nat
        /\ DOMAIN board = 1..n
        /\ DOMAIN board' = 1..n + 1
        /\ \A k \in 1..n : board'[k] = board[k]
        /\ board'[n + 1] = b
    BY <1>2, Appended
  <2>2. b.type = SUBMISSION =>
            \A k \in 1..n : board[k].type = SUBMISSION =>
                board[k].contents.ballot.ciphertext # b.contents.ballot.ciphertext
    BY <1>2, <2>1 DEF Appends, NewBulletin, NewSubmission, NewCast, NewCustom, BuildSubmission,
                      HasCiphertext, BUILTIN_BULLETINS, SUBMISSION, CAST
  <2> QED
    BY <2>1, <2>2 DEF UniqueCiphertexts
<1> QED
  BY <1>1, <1>2, BoardSteps

(* A voter has one ballot cast at most, in all runs of the ballot box.     *)
THEOREM OneCastPerVoter == Spec => []AtMostOneCast
<1> QED
  BY TypeInit, TypeStep, VotersInit, OneCastStep, PTL DEF Spec

(* The ballot cast is, and stays, the voter's latest submission, and the   *)
(* cast request is of the same authorization.                              *)
THEOREM CastBallotIsLatest == Spec => []CastIsLatestSubmission
<1> QED
  BY TypeInit, TypeStep, VotersInit, LatestStep, PTL DEF Spec

(* No ciphertext is submitted twice.                                       *)
THEOREM NoReplayedCiphertext == Spec => []UniqueCiphertexts
<1> QED
  BY TypeInit, TypeStep, VotersInit, CiphertextStep, PTL DEF Spec

-------------------------------------------------------------------------------
(* What a step may never do.                                               *)

LEMMA SealedStep ==
    ASSUME TypeOK, [Next]_vars
    PROVE  /\ \A v \in Voters : Casts(v) # {} =>
                 /\ Casts(v)' = Casts(v)
                 /\ Submissions(v)' = Submissions(v)
           /\ Len(board) <= Len(board')
           /\ \A i \in DOMAIN board : board'[i] = board[i]
<1>1. CASE board' = board
  <2>1. Len(board) \in Nat
    BY LenProperties DEF TypeOK
  <2> QED
    BY <1>1, <2>1 DEF Casts, Submissions
<1>2. ASSUME NEW b, Appends(b)
      PROVE  /\ \A v \in Voters : Casts(v) # {} =>
                   /\ Casts(v)' = Casts(v)
                   /\ Submissions(v)' = Submissions(v)
             /\ Len(board) <= Len(board')
             /\ \A i \in DOMAIN board : board'[i] = board[i]
  <2>1. ASSUME NEW v \in Voters, OfVoter(board, CAST, v) # {}
        PROVE  b.contents.ballot.auth.voter_pseudonym # v \/ b.type \notin {CAST, SUBMISSION}
    <3>1. CASE NewSubmission(b)
      BY <2>1, <3>1 DEF NewSubmission, BuildSubmission, NoPreviousCast
    <3>2. CASE NewCast(b)
      BY <2>1, <3>2, CastOfVoter
    <3>3. CASE NewCustom(b)
      BY <3>3 DEF NewCustom, BUILTIN_BULLETINS
    <3> QED
      BY <1>2, <3>1, <3>2, <3>3 DEF Appends, NewBulletin
  <2>2. ASSUME NEW v \in Voters, OfVoter(board, CAST, v) # {}
        PROVE  /\ OfVoter(board', CAST, v) = OfVoter(board, CAST, v)
               /\ OfVoter(board', SUBMISSION, v) = OfVoter(board, SUBMISSION, v)
    BY <1>2, <2>1, <2>2, VoterSteps
  <2>3. /\ Len(board) <= Len(board')
        /\ \A i \in DOMAIN board : board'[i] = board[i]
    BY <1>2, Appended
  <2> QED
    BY <2>2, <2>3 DEF Casts, Submissions
<1> QED
  BY <1>1, <1>2, BoardSteps

(* Once a voter has cast, no step changes what the board says of the       *)
(* voter; and the board only grows.                                        *)
THEOREM BoardIsSealed == Spec => SealedAfterCast
<1>1. TypeOK /\ [Next]_vars =>
          [/\ \A v \in Voters : Casts(v) # {} =>
                 /\ Casts(v)' = Casts(v)
                 /\ Submissions(v)' = Submissions(v)
           /\ Len(board) <= Len(board')
           /\ \A i \in DOMAIN board : board'[i] = board[i]]_vars
  BY SealedStep
<1> QED
  BY <1>1, TypeInit, TypeStep, PTL DEF Spec, SealedAfterCast

-------------------------------------------------------------------------------
(* Sessions of the ballot check applications.                              *)

(* The bulletin a tracker resolves to stays the same.                      *)
LEMMA TrackersResolve ==
    ASSUME TypeOK, [Next]_vars, NEW tracker, NEW i \in GetBulletin(board, tracker)
    PROVE  i \in GetBulletin(board', tracker) /\ board'[i] = board[i]
<1>1. CASE board' = board
  BY <1>1
<1>2. ASSUME NEW b, Appends(b)
      PROVE  i \in GetBulletin(board', tracker) /\ board'[i] = board[i]
  BY <1>2, Appended DEF GetBulletin
<1> QED
  BY <1>1, <1>2, BoardSteps

(* A session asks for a submission on the board bb.                        *)
Tracked(session, bb) ==
    session # NoSession =>
        \E i \in GetBulletin(bb, session.check_req.tracker) : bb[i].type = SUBMISSION

LEMMA SessionsInit == Init => RandomizersAreTheSubmitters
  BY DEF Init, RandomizersAreTheSubmitters, NoOutput

LEMMA SessionsStep ==
    TypeOK /\ RandomizersAreTheSubmitters /\ [Next]_vars => RandomizersAreTheSubmitters'
<1> SUFFICES ASSUME TypeOK, RandomizersAreTheSubmitters, [Next]_vars
             PROVE  RandomizersAreTheSubmitters'
  OBVIOUS
<1> DEFINE AllTracked == \A d \in Connections : Tracked(sessions'[d], board')
           Submitters ==
               output'.type = "FwdRandomizer" =>
                   /\ sessions'[output'.to].state = "Complete"
                   /\ \E i \in GetBulletin(board', sessions'[output'.to].check_req.tracker) :
                         /\ board'[i].type = SUBMISSION
                         /\ board'[i].contents.ballot.auth.voter_verifying_key =
                                output'.message.public_key
<1> SUFFICES AllTracked /\ Submitters
  BY DEF RandomizersAreTheSubmitters, Tracked
<1>1. \A d \in Connections : Tracked(sessions[d], board')
  BY TrackersResolve DEF RandomizersAreTheSubmitters, Tracked
<1>2. ASSUME UNCHANGED vars
      PROVE  AllTracked /\ Submitters
  BY <1>1, <1>2 DEF vars, RandomizersAreTheSubmitters
<1>3. ASSUME UNCHANGED sessions, output'.type # "FwdRandomizer"
      PROVE  AllTracked /\ Submitters
  BY <1>1, <1>3
<1>4. ASSUME NEW c \in Connections, sessions' = [sessions EXCEPT ![c] = NoSession],
             output'.type # "FwdRandomizer"
      PROVE  AllTracked /\ Submitters
  BY <1>1, <1>4 DEF TypeOK, Tracked
<1>5. ASSUME NEW c \in Connections, NEW req \in CheckReqs, CheckReq(c, req)
      PROVE  AllTracked /\ Submitters
  <2>1. CASE /\ CheckRequestChecks(req)
             /\ sessions' = [sessions EXCEPT ![c] = Session("AwaitingVAConnection", req)]
             /\ output'.type = "RequestVAConnection"
             /\ UNCHANGED board
    <3>1. Tracked(Session("AwaitingVAConnection", req), board')
      BY <2>1 DEF CheckRequestChecks, TrackerValid, Tracked, Session
    <3> QED
      BY <1>1, <2>1, <3>1 DEF TypeOK
  <2> QED
    BY <1>3, <1>5, <2>1 DEF CheckReq, Error
<1>6. ASSUME NEW c \in Connections, NEW state, sessions[c].state # "None",
             sessions' = [sessions EXCEPT ![c].state = state]
      PROVE  /\ AllTracked
             /\ sessions'[c].state = state
             /\ sessions'[c].check_req = sessions[c].check_req
  <2>1. sessions[c] \in [state : SessionStates \ {"None"}, check_req : CheckReqs]
    BY <1>6 DEF TypeOK, NoSession
  <2>2. sessions' = [sessions EXCEPT ![c] = [sessions[c] EXCEPT !.state = state]]
    BY <1>6
  <2>3. /\ sessions'[c].state = state
        /\ sessions'[c].check_req = sessions[c].check_req
    BY <2>1, <2>2 DEF TypeOK
  <2>4. sessions[c] # NoSession
    BY <1>6 DEF NoSession
  <2>5. Tracked(sessions'[c], board')
    BY <1>1, <2>3, <2>4 DEF Tracked
  <2>6. \A d \in Connections \ {c} : sessions'[d] = sessions[d]
    BY <2>2 DEF TypeOK
  <2> QED
    BY <1>1, <2>3, <2>5, <2>6
<1>7. ASSUME NEW c \in Connections, NEW va \in Connections, ProvideVAConnection(c, va)
      PROVE  AllTracked /\ Submitters
  <2>1. CASE /\ sessions[c].state = "AwaitingVAConnection"
             /\ sessions' = [sessions EXCEPT ![c].state = "AwaitingRandomizers"]
             /\ output'.type = "FwdCheckReq"
    BY <1>6, <2>1
  <2> QED
    BY <1>4, <1>7, <2>1 DEF ProvideVAConnection, DropSession, Error
<1>8. ASSUME NEW c \in Connections, NEW msg \in Randomizers, Randomizer(c, msg)
      PROVE  AllTracked /\ Submitters
  <2>1. CASE /\ sessions[c].state = "AwaitingRandomizers"
             /\ RandomizerChecks(sessions[c].check_req, msg)
             /\ sessions' = [sessions EXCEPT ![c].state = "Complete"]
             /\ output' = [type |-> "FwdRandomizer", to |-> c, message |-> msg]
             /\ UNCHANGED <<board, clock>>
    <3>1. /\ AllTracked
          /\ sessions'[c].state = "Complete"
          /\ sessions'[c].check_req = sessions[c].check_req
      BY <1>6, <2>1
    <3>2. output'.to = c /\ output'.message = msg
      BY <2>1
    <3>3. \E i \in GetBulletin(board', sessions'[c].check_req.tracker) :
             /\ board'[i].type = SUBMISSION
             /\ board'[i].contents.ballot.auth.voter_verifying_key = msg.public_key
      BY <2>1, <3>1 DEF RandomizerChecks
    <3> QED
      BY <3>1, <3>2, <3>3
  <2> QED
    BY <1>4, <1>8, <2>1 DEF Randomizer, DropSession, Error
<1>9. CASE Restart
  <2>1. /\ \A d \in Connections : sessions'[d] = NoSession
        /\ output'.type = "None"
    BY <1>9 DEF Restart, NoOutput
  <2> QED
    BY <2>1 DEF Tracked
<1>10. ASSUME NEW c \in Connections, NEW ballot \in SignedBallots, SubmitSignedBallot(c, ballot)
       PROVE  AllTracked /\ Submitters
  <2>1. \A ok, tracker : TrackerMsg(c, ok, tracker).type # "FwdRandomizer"
    BY DEF TrackerMsg
  <2>2. output'.type # "FwdRandomizer" /\ UNCHANGED sessions
    BY <1>10, <2>1 DEF SubmitSignedBallot, Post, Refuse
  <2> QED
    BY <1>3, <2>2
<1>11. ASSUME NEW c \in Connections, NEW req \in CastReqs, CastReq(c, req)
       PROVE  AllTracked /\ Submitters
  <2>1. \A ok, sub, cast : CastConf(c, ok, sub, cast).type # "FwdRandomizer"
    BY DEF CastConf
  <2>2. output'.type # "FwdRandomizer" /\ UNCHANGED sessions
    BY <1>11, <2>1 DEF CastReq, Post, Refuse
  <2> QED
    BY <1>3, <2>2
<1>12. ASSUME NEW type, PostBulletin(type)
       PROVE  AllTracked /\ Submitters
  BY <1>3, <1>12 DEF PostBulletin, Post, Refuse, Error
<1>13. ASSUME NEW c \in Connections, UnexpectedMessage(c) \/ CloseSession(c)
       PROVE  AllTracked /\ Submitters
  BY <1>4, <1>13 DEF UnexpectedMessage, DropSession, CloseSession, Error
<1>14. CASE ListSessions \/ SystemTime
  BY <1>3, <1>14 DEF ListSessions, SystemTime, NoOutput
<1> QED
  BY <1>2, <1>5, <1>7, <1>8, <1>9, <1>10, <1>11, <1>12, <1>13, <1>14 DEF Next

(* Randomizers leave the ballot box only under the key that submitted the  *)
(* ballot whose check the connection asked for.                            *)
THEOREM RandomizersOfSubmitters == Spec => []RandomizersAreTheSubmitters
<1> QED
  BY TypeInit, TypeStep, SessionsInit, SessionsStep, PTL DEF Spec

-------------------------------------------------------------------------------
(* The board implements the ledger of voters.                              *)

HasLast(S) == \E m \in S : \A j \in S : j <= m

(* The greatest position of a voter's bulletins exists as long as there    *)
(* are any: Last is defined by choice.                                     *)
LastsExist ==
    \A v \in Voters : /\ Submissions(v) # {} => HasLast(Submissions(v))
                      /\ Casts(v) # {} => HasLast(Casts(v))

LEMMA LastIs ==
    ASSUME NEW S, S \subseteq Nat, NEW m \in S, \A j \in S : j <= m
    PROVE  Last(S) = m
<1>1. \E i \in S : \A j \in S : j <= i
  OBVIOUS
<1>2. Last(S) \in S /\ \A j \in S : j <= Last(S)
  BY <1>1, Zenon DEF Last
<1>3. Last(S) <= m /\ m <= Last(S) /\ Last(S) \in Nat /\ m \in Nat
  BY <1>2
<1> QED
  BY <1>3

(* What a bulletin does to the latest ballot of a voter.                   *)
LEMMA LatestAfter ==
    ASSUME TypeOK, NEW b, Appends(b), NEW v, NEW type,
           OfVoter(board, type, v) # {} => HasLast(OfVoter(board, type, v))
    PROVE  /\ OfVoter(board', type, v) # {} => HasLast(OfVoter(board', type, v))
           /\ LatestBallot(OfVoter(board, type, v))' =
                  IF b.type = type /\ b.contents.ballot.auth.voter_pseudonym = v
                  THEN b.contents.ballot
                  ELSE LatestBallot(OfVoter(board, type, v))
<1> DEFINE S == OfVoter(board, type, v)
           T == OfVoter(board', type, v)
           n == Len(board)
<1>1. /\ n \in Nat
      /\ board'[n + 1] = b
      /\ \A i \in 1..n : board'[i] = board[i]
      /\ S \subseteq 1..n
  BY Appended, VoterSteps
<1>2. LatestBallot(S)' = IF T = {} THEN NoBallot ELSE board'[Last(T)].contents.ballot
  BY DEF LatestBallot
<1>3. CASE b.type = type /\ b.contents.ballot.auth.voter_pseudonym = v
  <2>1. T = S \cup {n + 1}
    BY <1>3, VoterSteps
  <2>2. n + 1 \in T /\ T \subseteq Nat /\ \A j \in T : j <= n + 1
    BY <1>1, <2>1
  <2>3. Last(T) = n + 1
    BY <2>2, LastIs
  <2> QED
    BY <1>1, <1>2, <1>3, <2>2, <2>3 DEF HasLast
<1>4. CASE ~(b.type = type /\ b.contents.ballot.auth.voter_pseudonym = v)
  <2>1. T = S
    BY <1>4, VoterSteps
  <2>2. CASE S = {}
    BY <1>2, <1>4, <2>1, <2>2 DEF LatestBallot
  <2>3. CASE S # {}
    <3>1. PICK m \in S : \A j \in S : j <= m
      BY <2>3 DEF HasLast
    <3>2. Last(S) = m
      BY <1>1, <3>1, LastIs
    <3> QED
      BY <1>1, <1>2, <1>4, <2>1, <2>3, <3>1, <3>2 DEF LatestBallot
  <2> QED
    BY <2>2, <2>3
<1> QED
  BY <1>3, <1>4

LEMMA LastsInit == Init => LastsExist
  BY DEF Init, LastsExist, Submissions, Casts, OfVoter

LEMMA LastsStep == TypeOK /\ LastsExist /\ [Next]_vars => LastsExist'
<1> SUFFICES ASSUME TypeOK, LastsExist, [Next]_vars PROVE LastsExist'
  OBVIOUS
<1>1. CASE board' = board
  BY <1>1 DEF LastsExist, Submissions, Casts
<1>2. ASSUME NEW b, Appends(b), NEW v \in Voters
      PROVE  /\ OfVoter(board', SUBMISSION, v) # {} => HasLast(OfVoter(board', SUBMISSION, v))
             /\ OfVoter(board', CAST, v) # {} => HasLast(OfVoter(board', CAST, v))
  <2>1. /\ OfVoter(board, SUBMISSION, v) # {} => HasLast(OfVoter(board, SUBMISSION, v))
        /\ OfVoter(board, CAST, v) # {} => HasLast(OfVoter(board, CAST, v))
    BY DEF LastsExist, Submissions, Casts
  <2> QED
    BY <1>2, <2>1, LatestAfter
<1> QED
  BY <1>1, <1>2, BoardSteps DEF LastsExist, Submissions, Casts

latestOf == [v \in Voters |-> LatestBallot(Submissions(v))]
castOf == [v \in Voters |-> LatestBallot(Casts(v))]
usedOf == {board[i].contents.ballot.ciphertext :
              i \in {j \in DOMAIN board : board[j].type = SUBMISSION}}

LEMMA NoBallotIsNoBallot == NoBallot \notin SignedBallots
<1>1. DOMAIN NoBallot = {"auth"}
  BY DEF NoBallot
<1>2. \A ballot \in SignedBallots : "signed" \in DOMAIN ballot
  BY DEF SignedBallots
<1> QED
  BY <1>1, <1>2

LEMMA LedgerInit == Init => Ledger!Init
<1> SUFFICES ASSUME Init PROVE Ledger!Init
  OBVIOUS
<1>1. /\ DOMAIN board = {}
      /\ \A v, type : OfVoter(board, type, v) = {}
  BY DEF Init, OfVoter
<1> QED
  BY <1>1 DEF Ledger!Init, LatestBallot, Submissions, Casts

(* A submission is a step of the ledger ...                                *)
LEMMA SubmissionStep ==
    ASSUME TypeOK, LastsExist, NEW b, Appends(b), NewSubmission(b)
    PROVE  Ledger!Next
<1> DEFINE ballot == b.contents.ballot
           w == ballot.auth.voter_pseudonym
<1>1. ballot \in SignedBallots /\ w \in Voters
  BY DEF NewSubmission, SignedBallots, Voters
<1>2. b.type = SUBMISSION /\ b.type # CAST
  BY DEF NewSubmission, SUBMISSION, CAST
<1>3. castOf[w] = NoBallot
  BY <1>1 DEF NewSubmission, BuildSubmission, NoPreviousCast, castOf, Casts, LatestBallot
<1>4. CiphertextOf(ballot) \notin usedOf
  BY DEF NewSubmission, BuildSubmission, HasCiphertext, CiphertextOf, usedOf, BUILTIN_BULLETINS
<1>5. \A v \in Voters : latestOf'[v] = IF v = w THEN ballot ELSE latestOf[v]
  <2> TAKE v \in Voters
  <2>1. LatestBallot(OfVoter(board, SUBMISSION, v))' =
            IF v = w THEN ballot ELSE LatestBallot(OfVoter(board, SUBMISSION, v))
    BY <1>2, LatestAfter DEF LastsExist, Submissions
  <2> QED
    BY <2>1 DEF latestOf, Submissions
<1>6. latestOf' = [latestOf EXCEPT ![w] = ballot]
  BY <1>1, <1>5 DEF latestOf
<1>7. castOf' = castOf
  <2>1. \A v \in Voters : LatestBallot(OfVoter(board, CAST, v))' =
                              LatestBallot(OfVoter(board, CAST, v))
    BY <1>2, LatestAfter DEF LastsExist, Casts
  <2> QED
    BY <2>1 DEF castOf, Casts
<1>8. usedOf' = usedOf \cup {CiphertextOf(ballot)}
  BY <1>2, Appended DEF usedOf, CiphertextOf
<1>9. usedOf' # usedOf
  BY <1>4, <1>8
<1>10. Ledger!Submit(w, ballot)
  BY <1>3, <1>4, <1>6, <1>7, <1>8 DEF Ledger!Submit, latestOf, castOf, usedOf
<1> QED
  BY <1>1, <1>9, <1>10 DEF Ledger!Next, usedOf

(* ... a cast is one ...                                                   *)
LEMMA CastStep ==
    ASSUME TypeOK, LastsExist, NEW b, Appends(b), NewCast(b)
    PROVE  Ledger!Next
<1> DEFINE ballot == b.contents.ballot
           w == ballot.auth.voter_pseudonym
           S == OfVoter(board, SUBMISSION, w)
<1>1. ballot \in SignedBallots /\ w \in Voters
  BY DEF Appends, NewBulletin, NewCast, IsBulletin, BUILTIN_BULLETINS, SignedBallots, Voters
<1>2. b.type = CAST /\ b.type # SUBMISSION
  BY DEF NewCast, SUBMISSION, CAST
<1>3. castOf[w] = NoBallot
  BY <1>1, CastOfVoter DEF castOf, Casts, LatestBallot
<1>4. latestOf[w] = ballot
  <2>1. PICK j \in S : /\ board[j].contents.ballot = ballot
                       /\ \A k \in S : k <= j
    BY CastOfVoter
  <2>2. S \subseteq Nat
    BY VoterSteps
  <2>3. Last(S) = j
    BY <2>1, <2>2, LastIs
  <2> QED
    BY <1>1, <2>1, <2>3 DEF latestOf, LatestBallot, Submissions
<1>5. latestOf[w] # NoBallot
  BY <1>1, <1>4, NoBallotIsNoBallot
<1>6. latestOf' = latestOf
  <2>1. \A v \in Voters : LatestBallot(OfVoter(board, SUBMISSION, v))' =
                              LatestBallot(OfVoter(board, SUBMISSION, v))
    BY <1>2, LatestAfter DEF LastsExist, Submissions
  <2> QED
    BY <2>1 DEF latestOf, Submissions
<1>7. \A v \in Voters : castOf'[v] = IF v = w THEN ballot ELSE castOf[v]
  <2> TAKE v \in Voters
  <2>1. LatestBallot(OfVoter(board, CAST, v))' =
            IF v = w THEN ballot ELSE LatestBallot(OfVoter(board, CAST, v))
    BY <1>2, LatestAfter DEF LastsExist, Casts
  <2> QED
    BY <2>1 DEF castOf, Casts
<1>8. castOf' = [castOf EXCEPT ![w] = latestOf[w]]
  BY <1>1, <1>4, <1>7 DEF castOf
<1>9. usedOf' = usedOf
  BY <1>2, Appended DEF usedOf
<1> QED
  BY <1>1, <1>3, <1>5, <1>6, <1>8, <1>9
  DEF Ledger!Next, Ledger!Cast, latestOf, castOf, usedOf

(* ... and every other step leaves the ledger alone.                       *)
LEMMA LedgerStep ==
    ASSUME TypeOK, LastsExist, [Next]_vars
    PROVE  Ledger!Next \/ UNCHANGED <<latestOf, castOf, usedOf>>
<1>1. CASE board' = board
  BY <1>1 DEF latestOf, castOf, usedOf, LatestBallot, Submissions, Casts
<1>2. ASSUME NEW b, Appends(b), NewCustom(b)
      PROVE  UNCHANGED <<latestOf, castOf, usedOf>>
  <2>1. b.type # SUBMISSION /\ b.type # CAST
    BY <1>2 DEF NewCustom, BUILTIN_BULLETINS
  <2>2. \A v \in Voters :
           /\ LatestBallot(OfVoter(board, SUBMISSION, v))' =
                  LatestBallot(OfVoter(board, SUBMISSION, v))
           /\ LatestBallot(OfVoter(board, CAST, v))' = LatestBallot(OfVoter(board, CAST, v))
    BY <1>2, <2>1, LatestAfter DEF LastsExist, Submissions, Casts
  <2>3. usedOf' = usedOf
    BY <1>2, <2>1, Appended DEF usedOf
  <2> QED
    BY <2>2, <2>3 DEF latestOf, castOf, Submissions, Casts
<1> QED
  BY <1>1, <1>2, BoardSteps, SubmissionStep, CastStep DEF Appends, NewBulletin

(* The ballot box implements the ledger of voters, from which it follows   *)
(* that the ballot cast of each voter is the latest one and is final.      *)
THEOREM LedgerImplemented == Spec => ImplementsLedger
<1>1. TypeOK /\ LastsExist /\ [Next]_vars => [Ledger!Next]_(Ledger!ledgerVars)
  BY LedgerStep DEF Ledger!ledgerVars, latestOf, castOf, usedOf
<1> QED
  BY <1>1, TypeInit, TypeStep, LastsInit, LastsStep, LedgerInit, PTL
  DEF Spec, ImplementsLedger, Ledger!Spec
===============================================================================
