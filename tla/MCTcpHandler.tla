---------------------------- MODULE MCTcpHandler ----------------------------
(* Model-checking instance of TcpHandler: two connections whose clients    *)
(* send two frames, a 5-byte one with a 1-byte body and a bare header,    *)
(* or a frame whose header declares fewer than 4 bytes.                   *)
EXTENDS TcpHandler

MCConns == {"c1", "c2"}
MCConn == {"c1"}

FrameA == <<0, 0, 0, 5, 65>>
FrameB == <<0, 0, 0, 4>>
FrameBad == <<0, 0, 0, 2>>

MCScripts == {<<FrameA, FrameB>>}
MCScriptsOne == {<<FrameA>>}
MCScriptsBad == {<<FrameA, FrameB>>, <<FrameBad>>}

(* Time is counted in whole ticks.  In Go, recv stamps h.idleTime         *)
(* (tcphandler.go:140) strictly before it sets the next read deadline     *)
(* (:131), so the idle check after a timeout sees a little more than      *)
(* ReadTimeout elapsed; whole ticks cannot tell ReadTimeout = IdleTimeout *)
(* from ReadTimeout < IdleTimeout, and no instance uses it.               *)
ASSUME ReadTimeout # IdleTimeout
====
