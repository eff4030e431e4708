------------------------------ MODULE MCDaemon ------------------------------
(* Ways to start smdbd: defaults, a file, flags and variables that         *)
(* override it, halves of a certificate pair from different sources, and   *)
(* configurations that must be refused.                                    *)
EXTENDS Daemon, TLC

CONSTANTS good

Plain == [status |-> "absent", explicit |-> FALSE, file |-> DefaultFile,
          cert |-> None, key |-> None, env_tokens |-> {good}, level |-> None,
          env_level |-> None, listen |-> None]
Filed(settings) == [Plain EXCEPT !.status = "read", !.explicit = TRUE, !.env_tokens = None,
                             !.file = settings]
Paired == [DefaultFile EXCEPT !.cert = "there", !.key = "there", !.tokens = {good}]

(* Started from the defaults, and with a file of which every setting is    *)
(* completed or corrected by a flag or a variable.                         *)
Good == {Plain,
         [Filed([DefaultFile EXCEPT !.cert = "there", !.tokens = {good},
                                    !.level = "wrong", !.listen = "wrong"])
             EXCEPT !.key = "there", !.env_level = "right", !.listen = "right"]}
Bad == {[Plain EXCEPT !.explicit = TRUE], [Plain EXCEPT !.status = "malformed"],
        [Plain EXCEPT !.status = "unreadable"], [Plain EXCEPT !.cert = "there"],
        Filed([DefaultFile EXCEPT !.key = "there"]), Filed([Paired EXCEPT !.cert = "missing"]),
        Filed([Paired EXCEPT !.interval = 0]), [Filed(Paired) EXCEPT !.level = "wrong"],
        Filed([Paired EXCEPT !.key = "unusable"])}

MCLaunches == Good \cup Bad
Blanks == {Plain, [Filed(Paired) EXCEPT !.env_tokens = {Blank}], Filed(DefaultFile)}
=============================================================================
