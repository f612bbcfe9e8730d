------------------------------- MODULE S3Bucket -------------------------------
(***************************************************************************)
(* The S3 bucket of a scenario: features/src/minio.py, and the steps of    *)
(* exporter_s3.py that look into it. Every call of the client is a request *)
(* of its own, and any of them may raise. The scenario that makes the      *)
(* calls, and the program that stores objects, are in the modules that     *)
(* extend this one.                                                        *)
(***************************************************************************)
EXTENDS FiniteSets

CONSTANTS
  Files,           \* the names of the feature files
  Table,           \* the rows an object may hold
  OldCompatibility \* S3_old_minio_compatibility: objects have plain names

VARIABLES
  bucket,  \* "absent" or "present"
  objects, \* what it holds: records with the name, the rows and the scenario
  names    \* the names clean_bucket has listed and not removed yet

storage == <<bucket, objects, names>>

NamesOf(found) == {o.name : o \in found}

\* get_object_name: the bucket is part of the name unless Minio is old.
ObjectName(file) ==
  IF OldCompatibility THEN [bucket |-> "none", file |-> file]
                      ELSE [bucket |-> "test", file |-> file]

ObjectNames == {ObjectName(file) : file \in Files}

\* Mutant: the objects are collected, not their names.
ListWholeObjects == bucket = "present" /\ names' = objects /\ UNCHANGED <<bucket, objects>>

\* create_bucket: bucket_exists, then list_objects if there is one. What is
\* listed is removed object by object.
ListObjects == bucket = "present" /\ names' = NamesOf(objects) /\ UNCHANGED <<bucket, objects>>

RemoveObject(name) ==
  /\ name \in names /\ names' = names \ {name}
  /\ objects' = {o \in objects : o.name # name}
  /\ UNCHANGED bucket

\* The server refuses to remove a bucket that is not empty.
RemoveBucket ==
  /\ names = {} /\ objects = {}
  /\ bucket' = "absent" /\ UNCHANGED <<objects, names>>

MakeBucket == bucket = "absent" /\ bucket' = "present" /\ UNCHANGED <<objects, names>>

\* A put replaces the object that has the name.
PutObject(file, rows, scenario) ==
  /\ bucket = "present"
  /\ objects' = {o \in objects : o.name # ObjectName(file)}
                  \cup {[name |-> ObjectName(file), rows |-> rows, scenario |-> scenario]}
  /\ UNCHANGED <<bucket, names>>

\* What the checks ask of the bucket. All of them begin with bucket_check.
IsEmpty == bucket = "present" /\ objects = {}
IsNotEmpty == bucket = "present" /\ objects # {}
HasObjects(files) ==
  bucket = "present" /\ {ObjectName(f) : f \in files} \subseteq NamesOf(objects)
LacksObjects(files) ==
  bucket = "present" /\ {ObjectName(f) : f \in files} \cap NamesOf(objects) = {}

\* check_csv_content_in_s3 counts the lines after the header.
HasRecords(file, n) ==
  /\ bucket = "present"
  /\ \E o \in objects : o.name = ObjectName(file) /\ Cardinality(o.rows) = n

\* check_table_content looks every line of the object up in the feature file.
HoldsOnly(file, expected) ==
  \E o \in objects : o.name = ObjectName(file) /\ o.rows \subseteq expected
===============================================================================
