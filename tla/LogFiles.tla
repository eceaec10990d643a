------------------------------- MODULE LogFiles -------------------------------
(***************************************************************************)
(* The daily log of src/logging.rs: the calendar behind the file names,    *)
(* rotation at the first write of a day, and the purge that follows.  A    *)
(* date is its three fields: printed with fixed width, the names are       *)
(* ordered as the fields are (up to the year 9999).                        *)
(***************************************************************************)
EXTENDS Integers, Sequences

\* Days since 1970-01-01 to year, month and day.  The clock is never before the
\* epoch (today_utc), so that the branch for a negative era is not needed.
days_to_civil(days) ==
    LET z == days + 719468
        era == z \div 146097
        doe == z - era * 146097
        yoe == (doe - doe \div 1460 + doe \div 36524 - doe \div 146096) \div 365
        doy == doe - (365 * yoe + yoe \div 4 - yoe \div 100)
        mp == (5 * doy + 2) \div 153
        m == IF mp < 10 THEN mp + 3 ELSE mp - 9
    IN  <<yoe + era * 400 + (IF m <= 2 THEN 1 ELSE 0), m,
          doy - (153 * mp + 2) \div 5 + 1>>

\* The order of the names.
Earlier(a, b) ==
    \E i \in 1..3 : a[i] < b[i] /\ \A j \in 1..(i - 1) : a[j] = b[j]

\* Mutant: the cutoff day itself is purged.
PurgeThrough(files, now, keep_days) ==
    LET cutoff == days_to_civil(IF now > keep_days THEN now - keep_days ELSE 0)
    IN  {f \in files : Earlier(cutoff, f)}

\* A cutoff before the epoch counts as the epoch.
purge_old_logs(files, now, keep_days) ==
    LET cutoff == days_to_civil(IF now > keep_days THEN now - keep_days ELSE 0)
    IN  {f \in files : ~Earlier(f, cutoff)}

\* DailyLogWriter::new, and the rotation in write: the file of the day is
\* opened, then the old ones are purged.
OpenDay(files, now, keep_days) ==
    [date |-> days_to_civil(now),
     files |-> purge_old_logs(files \cup {days_to_civil(now)}, now, keep_days)]

write(log, now, keep_days) ==
    IF days_to_civil(now) = log.date THEN log ELSE OpenDay(log.files, now, keep_days)

==============================================================================
