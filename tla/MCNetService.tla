---------------------------- MODULE MCNetService ----------------------------
(***************************************************************************)
(* NetServiceEpoll for TLC: the calls of the applications that are checked *)
(* and the system calls that fail.                                         *)
(***************************************************************************)
EXTENDS NetServiceEpoll

(* An application that calls the service from OnUpdate alone. *)
UpdateCalls == {"OnUpdate"} \X {"KickSession", "AddTCPConnector"}

(* One that connects from OnUpdate and stops the service from the main thread. *)
StopCalls == {<<"OnUpdate", "AddTCPConnector">>, <<"main", "Stop">>}

(* The calls of test_sock.h:61-67: the main thread connects. *)
MainConnects == {<<"main", "AddTCPConnector">>}

NoFaults == {}
SafeFaults == {"EPOLL_CTL_ADD", "EPOLL_CTL_MOD", "accept", "recvfrom"}
=============================================================================
