----------------------------- MODULE MCH1Conn ------------------------------
(* Exchanges for H1Conn: one for each way a body is framed, read, copied,   *)
(* left unread, cut short or overrun.                                       *)
EXTENDS H1Conn

Ex(reqLen, req, handler, resLen, res) ==
    [parts |-> 1, reqLen |-> reqLen, req |-> req, te |-> reqLen = Unknown, close |-> FALSE,
     handler |-> handler, resLen |-> resLen, res |-> res, resClose |-> FALSE, reads |-> TRUE]

\* Exchanges after which the connection goes on.
Good ==
    { Ex(0, <<>>, "drain", 2, <<2>>),
      Ex(2, <<1, 1>>, "copy", 0, <<>>),
      Ex(Unknown, <<2>>, "copy", 0, <<>>),
      Ex(Unknown, <<1>>, "drain", Unknown, <<1>>) }

\* Exchanges after which one of the sides should end it.
Last ==
    { Ex(1, <<1>>, "ignore", 0, <<>>),
      Ex(0, <<>>, "ignore", 2, <<1>>),
      Ex(0, <<>>, "ignore", 1, <<1, 1>>),
      Ex(0, <<>>, "ignore", 0, <<1>>),
      [Ex(0, <<>>, "ignore", Unknown, <<1>>) EXCEPT !.reads = FALSE],
      [Ex(0, <<>>, "ignore", 1, <<1>>) EXCEPT !.close = TRUE],
      [Ex(1, <<1>>, "drain", 1, <<1>>) EXCEPT !.resClose = TRUE],
      [Ex(0, <<>>, "ignore", 1, <<1>>) EXCEPT !.parts = 3],
      [Ex(Unknown, <<1>>, "drain", 1, <<1>>) EXCEPT !.te = FALSE],
      [Ex(1, <<1>>, "drain", 1, <<1>>) EXCEPT !.te = TRUE] }

Plain == Ex(1, <<1>>, "drain", 1, <<1>>)

Pairs == (Good \X Good) \cup ({Plain} \X Last) \cup (Last \X {Plain})
=============================================================================
