--------------------------------- MODULE Wire ---------------------------------
(***************************************************************************)
(* The messages of the protocol: what MessageManager of the client sends,  *)
(* what the server's processor dispatches, reads and answers, and what     *)
(* the client's processor dispatches and reads. The tables are written by  *)
(* hand in six places of the program, and a message that the other side    *)
(* does not know ends the connection.                                      *)
(*                                                                         *)
(* Data is abstracted to the set of its keys: each key has one JSON type   *)
(* wherever it is written or read. ERROR is not an action of the tables,   *)
(* it is a message with the key reason.                                    *)
(***************************************************************************)
EXTENDS Integers

Entry(must, may) == [must |-> must, may |-> may]
Plain(must) == Entry(must, {})

\* Message{type, action, status, data}
Message(type, action, status, data) ==
  [type |-> type, action |-> action, status |-> status, data |-> data]

\* MessageManager's ...Query slots: the keys that are always set, and the
\* groups of keys that are set together or not at all.
UserQueries ==
  [LOGIN         |-> Plain({"username", "password"}),
   LOGOUT        |-> Plain({"token"}),
   NEW_USER |-> Entry({"username", "password", "pswRepeat"}, {{"icon"}}),
   EDIT          |-> Entry({"token"}, {{"oldPassword", "password", "pswRepeat"}, {"icon"}}),
   DELETE        |-> Plain({"token"}),
   GET_USER_ICON |-> Plain({"userId"})]

OnFile == {"token", "fileId"}

FileQueries ==
  [NEW_FILE |-> Entry({"token", "name"}, {{"dirId"}}),
   GET           |-> Plain(OnFile),
   CLOSE         |-> Plain(OnFile),
   EDIT          |-> Entry(OnFile, {{"name"}}),
   DELETE        |-> Plain(OnFile),
   GET_LINK      |-> Plain(OnFile),
   ACTIVATE_LINK |-> Plain({"token", "link"}),
   FILE_INFO     |-> Plain(OnFile)]

EditQueries ==
  [LOCAL_INSERT |-> Plain(OnFile \cup {"symbols", "paragraphs"}),
   LOCAL_DELETE |-> Plain(OnFile \cup {"ids", "paragraphs"}),
   LOCAL_UPDATE |-> Plain(OnFile \cup {"symbols", "paragraphs", "timestamp"}),
   LOCAL_MOVE   |-> Plain(OnFile \cup {"symbolId", "cursorPosition"})]

CommentQueries ==
  [COMMENT_LOCAL_INSERT |-> Plain(OnFile \cup {"comment"}),
   COMMENT_LOCAL_UPDATE |-> Plain(OnFile \cup {"comment"}),
   COMMENT_LOCAL_DELETE |-> Plain(OnFile \cup {"comment"})]

FileSystemQueries ==
  [NEW_DIR      |-> Entry({"token", "name"}, {{"parentId"}}),
   EDIT_DIR     |-> Entry({"token", "dirId"}, {{"name"}, {"parentId"}}),
   DELETE_DIR   |-> Plain({"token", "dirId"}),
   GET_DIR      |-> Entry({"token"}, {{"dirId"}}),
   MOVE_FILE    |-> Plain(OnFile \cup {"dirId"}),
   GET_PATH     |-> Plain({"token", "elementId"}),
   SEARCH       |-> Plain({"token", "query"}),
   GET_ALL_DIRS |-> Plain({"token"})]

Queries ==
  [USER |-> UserQueries, FILE |-> FileQueries, FILE_EDIT |-> EditQueries,
   COMMENT |-> CommentQueries, FILESYSTEM |-> FileSystemQueries]

\* The messages of an action, one for each choice of the optional groups.
Versions(type, action, status, entry) ==
  {Message(type, action, status, entry.must \cup UNION G) : G \in SUBSET entry.may}

QueriesOf(type, action) == Versions(type, action, "QUERY", Queries[type][action])
-----------------------------------------------------------------------------
\* The server: process_message chooses by the type, and each process_... method
\* has a case for these actions, all of which must be queries.
UserCases       == {"LOGIN", "LOGOUT", "NEW_USER", "EDIT", "DELETE", "GET_USER_ICON"}
FileCases       == {"NEW_FILE", "GET", "CLOSE", "EDIT", "DELETE", "GET_LINK", "ACTIVATE_LINK",
                    "FILE_INFO"}
EditCases       == {"LOCAL_INSERT", "LOCAL_DELETE", "LOCAL_UPDATE", "LOCAL_MOVE"}
CommentCases    == {"COMMENT_LOCAL_INSERT", "COMMENT_LOCAL_UPDATE", "COMMENT_LOCAL_DELETE"}
FileSystemCases == {"NEW_DIR", "EDIT_DIR", "DELETE_DIR", "GET_DIR", "MOVE_FILE", "GET_PATH",
                    "SEARCH", "GET_ALL_DIRS"}

Cases ==
  [USER |-> UserCases, FILE |-> FileCases, FILE_EDIT |-> EditCases,
   COMMENT |-> CommentCases, FILESYSTEM |-> FileSystemCases]

\* What its handlers read without an alternative.
UserReads ==
  [LOGIN |-> {"username", "password"}, LOGOUT |-> {"token"},
   NEW_USER |-> {"username", "password", "pswRepeat"}, EDIT |-> {"token"},
   DELETE |-> {"token"}, GET_USER_ICON |-> {"userId"}]

FileReads ==
  [NEW_FILE |-> {"token", "name"}, GET |-> OnFile, CLOSE |-> OnFile, EDIT |-> OnFile,
   DELETE |-> OnFile, GET_LINK |-> OnFile, ACTIVATE_LINK |-> {"token", "link"},
   FILE_INFO |-> OnFile]

EditReads ==
  [LOCAL_INSERT |-> OnFile \cup {"symbols", "paragraphs"},
   LOCAL_DELETE |-> OnFile \cup {"ids", "paragraphs"},
   LOCAL_UPDATE |-> OnFile \cup {"symbols", "paragraphs", "timestamp"},
   LOCAL_MOVE   |-> OnFile \cup {"symbolId", "cursorPosition"}]

CommentReads == [action \in CommentCases |-> OnFile \cup {"comment"}]

FileSystemReads ==
  [NEW_DIR |-> {"token", "name"}, EDIT_DIR |-> {"token", "dirId"},
   DELETE_DIR |-> {"token", "dirId"}, GET_DIR |-> {"token"}, MOVE_FILE |-> OnFile,
   GET_PATH |-> {"token", "elementId"}, SEARCH |-> {"token", "query"},
   GET_ALL_DIRS |-> {"token"}]

Reads ==
  [USER |-> UserReads, FILE |-> FileReads, FILE_EDIT |-> EditReads,
   COMMENT |-> CommentReads, FILESYSTEM |-> FileSystemReads]

\* The server ends the connection on a message it has no case for. getString,
\* getInt, getArray and getObject throw when the key is not there, and the
\* handler's exception becomes an ERROR message.
Dispatched(m) == m.status = "QUERY" /\ m.type \in DOMAIN Cases /\ m.action \in Cases[m.type]
Readable(m) == Reads[m.type][m.action] \subseteq m.data

\* The answer of each handler that has one when nothing goes wrong.
Answers ==
  [USER |-> [LOGIN |-> Entry({"token", "userId"}, {{"icon"}}),
             NEW_USER |-> Plain({"token", "userId"}), EDIT |-> Plain({}), DELETE |-> Plain({}),
             GET_USER_ICON |-> Entry({"userId", "found"}, {{"icon"}})],
   FILE |-> [NEW_FILE |-> Plain({"fileId"}), GET |-> Plain({"file", "charId", "commentId"}),
             EDIT |-> Plain({}), DELETE |-> Plain({}), GET_LINK |-> Plain({"link"}),
             ACTIVATE_LINK |-> Plain({"element", "file"}),
             FILE_INFO |-> Plain({"name", "path", "owner", "created"})],
   FILESYSTEM |-> [NEW_DIR |-> Plain({"dirId"}), EDIT_DIR |-> Plain({}), DELETE_DIR |-> Plain({}),
                   GET_DIR |-> Plain({"name", "parent", "elements"}), MOVE_FILE |-> Plain({}),
                   GET_PATH |-> Plain({"elements"}), SEARCH |-> Plain({"elements"}),
                   GET_ALL_DIRS |-> Plain({"elements"})]]

\* Slip: closeFile, logout and the handlers of edits answer too.
AnswersOf_Always(type, action) ==
  Versions(type, action, "RESPONSE",
           IF type \in DOMAIN Answers /\ action \in DOMAIN Answers[type]
           THEN Answers[type][action] ELSE Plain({}))

AnswersOf(type, action) ==
  IF type \in DOMAIN Answers /\ action \in DOMAIN Answers[type]
  THEN Versions(type, action, "RESPONSE", Answers[type][action])
  ELSE {}

\* What the other clients of the file are sent: the keys of the query that are
\* passed on, with the file's id for them and the user's. FILE_DELETED goes to
\* the owners of the links that went with the file, or with those of a folder. A
\* connection that ends is announced like a logout.
UserConnected == Message("FILE_EDIT", "USER_CONNECTED", "QUERY", {"fileId", "userId", "username"})
UserDisconnected == Message("FILE_EDIT", "USER_DISCONNECTED", "QUERY", {"fileId", "userId"})
FileDeleted == Message("FILE", "FILE_DELETED", "QUERY", {"fileId"})

Remote ==
  [LOCAL_INSERT |-> "REMOTE_INSERT", LOCAL_DELETE |-> "REMOTE_DELETE",
   LOCAL_UPDATE |-> "REMOTE_UPDATE", LOCAL_MOVE |-> "REMOTE_MOVE",
   COMMENT_LOCAL_INSERT |-> "COMMENT_REMOTE_INSERT",
   COMMENT_LOCAL_UPDATE |-> "COMMENT_REMOTE_UPDATE",
   COMMENT_LOCAL_DELETE |-> "COMMENT_REMOTE_DELETE"]

PassedOn(m) == Message(m.type, Remote[m.action], "QUERY", (m.data \ {"token"}) \cup {"userId"})

NoticesOf(type, action) ==
  IF type \in {"FILE_EDIT", "COMMENT"} THEN {PassedOn(m) : m \in QueriesOf(type, action)}
  ELSE CASE <<type, action>> \in {<<"FILE", "GET">>, <<"FILE", "ACTIVATE_LINK">>} -> {UserConnected}
         [] <<type, action>> \in {<<"FILE", "CLOSE">>, <<"USER", "LOGOUT">>} -> {UserDisconnected}
         [] <<type, action>> \in {<<"FILE", "DELETE">>, <<"FILESYSTEM", "DELETE_DIR">>} -> {FileDeleted}
         [] OTHER -> {}

Error == Message("ERROR", "0", "RESPONSE", {"reason"})
-----------------------------------------------------------------------------
\* The client: the status its process_... methods ask of the actions they have a
\* case for.
UserStatus ==
  [action \in {"LOGIN", "NEW_USER", "EDIT", "DELETE", "GET_USER_ICON"} |-> "RESPONSE"]

FileStatus ==
  [action \in {"NEW_FILE", "GET", "EDIT", "DELETE", "FILE_DELETED", "GET_LINK", "ACTIVATE_LINK",
               "FILE_INFO"} |-> IF action = "FILE_DELETED" THEN "QUERY" ELSE "RESPONSE"]

EditStatus ==
  [action \in {"REMOTE_INSERT", "REMOTE_DELETE", "REMOTE_UPDATE", "REMOTE_MOVE",
               "USER_CONNECTED", "USER_DISCONNECTED"} |-> "QUERY"]

CommentStatus ==
  [action \in {"COMMENT_REMOTE_INSERT", "COMMENT_REMOTE_UPDATE", "COMMENT_REMOTE_DELETE"} |->
     "QUERY"]

FileSystemStatus ==
  [action \in {"NEW_DIR", "EDIT_DIR", "DELETE_DIR", "GET_DIR", "MOVE_FILE", "GET_PATH", "SEARCH",
               "GET_ALL_DIRS"} |-> "RESPONSE"]

Status ==
  [USER |-> UserStatus, FILE |-> FileStatus, FILE_EDIT |-> EditStatus,
   COMMENT |-> CommentStatus, FILESYSTEM |-> FileSystemStatus]

\* What its handlers read without an alternative.
UserNeeds ==
  [LOGIN |-> {"token", "userId"}, NEW_USER |-> {"token", "userId"}, EDIT |-> {}, DELETE |-> {},
   GET_USER_ICON |-> {"userId", "found"}]

FileNeeds ==
  [NEW_FILE |-> {"fileId"}, GET |-> {"file", "charId", "commentId"}, EDIT |-> {}, DELETE |-> {},
   FILE_DELETED |-> {"fileId"}, GET_LINK |-> {"link"}, ACTIVATE_LINK |-> {"element", "file"},
   FILE_INFO |-> {"name", "path", "owner", "created"}]

Peer == {"fileId", "userId"}

EditNeeds ==
  [REMOTE_INSERT |-> Peer \cup {"symbols", "paragraphs"},
   REMOTE_DELETE |-> Peer \cup {"ids", "paragraphs"},
   REMOTE_UPDATE |-> Peer \cup {"symbols", "paragraphs", "timestamp"},
   REMOTE_MOVE |-> Peer \cup {"symbolId", "cursorPosition"},
   USER_CONNECTED |-> Peer \cup {"username"}, USER_DISCONNECTED |-> Peer]

CommentNeeds == [action \in DOMAIN CommentStatus |-> Peer \cup {"comment"}]

FileSystemNeeds ==
  [NEW_DIR |-> {"dirId"}, EDIT_DIR |-> {}, DELETE_DIR |-> {}, MOVE_FILE |-> {},
   GET_DIR |-> {"elements", "name", "parent"}, GET_PATH |-> {"elements"},
   GET_ALL_DIRS |-> {"elements"}, SEARCH |-> {"elements"}]

Needs ==
  [USER |-> UserNeeds, FILE |-> FileNeeds, FILE_EDIT |-> EditNeeds,
   COMMENT |-> CommentNeeds, FILESYSTEM |-> FileSystemNeeds]

\* A message the client's processor hands on to the windows. For any other it
\* ends its connection, a missing key included.
Understood(m) ==
  \/ m.type = "ERROR" /\ "reason" \in m.data
  \/ /\ m.type \in DOMAIN Status /\ m.action \in DOMAIN Status[m.type]
     /\ m.status = Status[m.type][m.action]
     /\ Needs[m.type][m.action] \subseteq m.data
=============================================================================
