------------------------------- MODULE MCLog --------------------------------
(* Instances of M70Log for TLC: a kilobyte of 4 units, so that a line is    *)
(* shorter (3) or longer (5) than a kilobyte.                               *)
EXTENDS M70Log

Config(target, path) ==
    [level |-> INFO, target |-> target, log_file_path |-> path,
     max_file_size |-> 1, max_file_count |-> 2]

\* To a file of each path, to the console, and without the path a file needs.
MCConfigs ==
    {Config({"file"}, p) : p \in Paths \union {NoPath}}
      \union {Config({"console"}, NoPath)}
=============================================================================
