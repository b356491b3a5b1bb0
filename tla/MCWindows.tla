----------------------------- MODULE MCWindows -----------------------------
EXTENDS Windows, TLC

(* The names as the target cuts them: four bytes. *)
MCPrograms == 0 :> {} @@ 1 :> {"cloc", "app"} @@ 2 :> {"upti"}

MCNames == {"", "shel", "Shell", "Application", "Debugger", "TTY", "app", "mon", "cloc", "upti"}

(* What a session may meet: each asks for other parts of the frontend. *)
Session(keys, frames, bytes, events, faulty) ==
    [keys |-> keys, frames |-> frames, bytes |-> bytes, events |-> events, faulty |-> faulty,
     plain |-> "text" \in frames \/ faulty]
MCSessions == {
    Session({"prefix", "x", "S", "c"}, {"output", "resources", "process"}, {<<"char">>}, 5, FALSE),
    Session({"prefix", "a", "s", "r", "n"}, {"open", "title", "close", "resources"}, {}, 3, FALSE),
    Session({"prefix", "b", "esc", "e", "2", "p", "?", "l", "z", "run app", "enter"}, {}, {}, 4, FALSE),
    Session({"prefix", "y", "k", "q", "esc", "[", "A"}, {"output"},
            {<<"newline">>, <<"formfeed">>, <<"return">>}, 4, FALSE),
    Session({"prefix", "k", "r"}, {"error"}, {}, 2, TRUE),
    Session({"prefix", "3", "!ps", "!kill 1", "step", "enter", "erase", "B", "ctrl-c"},
            {"debug"}, {}, 4, FALSE),
    Session({"prefix", "w", "R", "x", "S", "d"}, {"text", "output"}, {<<"banner">>}, 4, FALSE)}
=============================================================================
