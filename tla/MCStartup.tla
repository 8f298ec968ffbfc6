------------------------------ MODULE MCStartup ------------------------------
(***************************************************************************)
(* Startup with the lines below, in any number and order.  A text has up   *)
(* to four pieces, a path up to three; the directory of five pieces is cut *)
(* once when it is read and once more when it is bound.                    *)
(***************************************************************************)
EXTENDS Startup

Section(name) == [type |-> "section", name |-> name]
SettingLine(key, text, number) ==
    [type |-> "setting", key |-> key, text |-> text, number |-> number, ended |-> TRUE]

SomeLines ==
    { Section(<<"pgprtdbg">>), Section(<<"p">>), Section(<<>>),
      SettingLine("host", <<"*">>, 0), SettingLine("host", <<"h">>, 0),
      SettingLine("port", <<"1">>, 1), SettingLine("port", <<"x">>, 0),
      SettingLine("output", <<"o">>, 0),
      [SettingLine("output", <<"p">>, 0) EXCEPT !.ended = FALSE],
      SettingLine("unix_socket_dir", <<"u">>, 0),
      SettingLine("unix_socket_dir", <<"d", "e", "f", "g", "h">>, 0),
      SettingLine("log_type", <<"file">>, 0),
      SettingLine("libev", <<"poll">>, 0),
      SettingLine("buffer_size", <<"100000">>, 100000), SettingLine("buffer_size", <<"-1">>, -1),
      SettingLine("unknown", <<"o">>, 0),
      [type |-> "other"] }

\* The stack is zero, or holds what looks like a server.
SomeStack == { NoServer, [name |-> <<"s">>, host |-> <<"s">>, port |-> 7] }

Socket5432 == <<".s", "5432">>
OldSocket == { <<"u", ".s", "5432">> }
TwoInterfaces == <<2, 2>>
SomeEngines == {"select", "epoll"}
=============================================================================
