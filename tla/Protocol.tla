------------------------------ MODULE Protocol ------------------------------
(***************************************************************************)
(* The vocabulary of pkg/protocol/types.go and session.go that the server  *)
(* branches on.  A frame is abstracted to what the handlers read of it:    *)
(* its message id, the phone number of its header, whether its body        *)
(* decodes, and the token an authentication body carries.                  *)
(***************************************************************************)
EXTENDS Naturals, Sequences

CONSTANTS
  Phones,     \* the non-empty phone strings terminals put in the frame header
  NoPhone,    \* the empty string "": a header whose BCD digits are all padding
  NoToken     \* a Redis nil, or an authentication body that is no issued token

ASSUME PhoneAssumption == NoPhone \notin Phones

\* Every value Session.Phone and Frame.Phone can have.
PhoneStrings == Phones \cup {NoPhone}

\* Message ids, terminal to platform.  "unknown" is any other id.
MsgKinds == {"terminalResp", "heartbeat", "registration", "authentication",
             "terminalProps", "upgradeResult", "accStatus", "location",
             "batchLocation", "unknown"}

\* The ids Dispatch lets through before authentication.
PreAuthKinds == {"registration", "authentication", "terminalResp",
                 "location", "batchLocation"}

ResultOK          == 0
ResultFail        == 1
ResultMsgError    == 2
ResultUnsupported == 3
RegSuccess         == 0
RegTerminalNotInDB == 4

StateConnected     == 0
StateRegistered    == 1
StateAuthenticated == 2
StateClosing       == 3
States == StateConnected..StateClosing

\* GenerateAuthToken: phone and Unix second, so two tokens of one phone are
\* equal when they are generated in the same second.
GenerateAuthToken(p, sec) == [phone |-> p, ts |-> sec]
Tokens == [phone : PhoneStrings, ts : Nat]

Frame == [msg : MsgKinds \cup {"malformed"}, phone : PhoneStrings,
          good : BOOLEAN, token : Tokens \cup {NoToken}]

\* BuildPlatformACK (0x8001) and BuildRegistrationACK (0x8100).
PlatformACK(f, result) ==
  [kind |-> "platformResp", re |-> f.msg, result |-> result, token |-> NoToken]
RegistrationACK(result, t) ==
  [kind |-> "registrationResp", re |-> "registration", result |-> result,
   token |-> t]
NoReply ==
  [kind |-> "none", re |-> "none", result |-> 0, token |-> NoToken]

Replies == [kind : {"platformResp", "registrationResp", "none"},
            re : MsgKinds \cup {"malformed", "none"}, result : 0..4,
            token : Tokens \cup {NoToken}]
=============================================================================
