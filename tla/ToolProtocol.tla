---------------------------- MODULE ToolProtocol ----------------------------
(***************************************************************************)
(* The tools a model may call: src/main/agent-client/tool-types.ts.  What  *)
(* the program offers to a model (TOOL_DEFS) and what it accepts from one  *)
(* (KNOWN_TOOL_NAMES, validateToolCall) are separate tables in the code,   *)
(* and separate definitions here.                                          *)
(*                                                                         *)
(* Abstracted: an argument is the class of its value, its length within    *)
(* the limits of every tool; descriptions are left out.                    *)
(***************************************************************************)
EXTENDS Naturals

-----------------------------------------------------------------------------
(* Values and fields *)

\* Strings: a member of the field's enumeration, a relative path or other text,
\* a path from the root, one through the parent, nothing.  Numbers: in range and
\* whole, or not.  Arrays: strings, nothing, something else.
String == {"member", "text", "absolute", "parent", "blank"}
Number == {"whole", "number"}
Array  == {"strings", "empty", "mixed"}

Text == String \ {"blank"}
PathText == Text \ {"absolute", "parent"}

\* Fields a tool demands, and fields it takes: the values that fit.
demands(fits, names) == [name : names, fits : {fits}, needed : {TRUE}]
takes(fits, names)   == [name : names, fits : {fits}, needed : {FALSE}]

\* What validatePath and validatePositiveInt let through.
validatePath == PathText \union {"blank"}

validatePositiveInt == {"whole"}

-----------------------------------------------------------------------------
(* The names the program knows *)

ProjectToolNames == {"list_directory", "search_files", "search_code", "read_file",
                     "read_file_range"}

CommandToolNames == {"run_command", "list_project_commands", "read_command_output"}

\* The tools of browser_ and a tab_id alone.
TabTools == {"browser_close_tab", "browser_switch_tab", "browser_back", "browser_forward",
             "browser_reload", "browser_stop", "browser_read_page", "browser_screenshot",
             "browser_get_console", "browser_get_network_summary", "browser_get_media"}

\* The tools of an element of a page.
RefTools == {"browser_hover", "browser_double_click", "browser_focus", "browser_clear",
             "browser_scroll_into_view"}

BareTools == {"browser_list_profiles", "is_browser_open", "get_browser_status",
              "browser_open", "browser_close", "list_project_processes", "git_status",
              "git_branch_info"}

KNOWN_TOOL_NAMES ==
  ProjectToolNames \union CommandToolNames \union TabTools \union RefTools \union BareTools
  \union {"browser_list_sessions", "browser_new_tab", "browser_open_url", "browser_find_text",
          "browser_click", "browser_type", "browser_fill", "browser_select",
          "browser_press_key", "browser_scroll", "browser_create_session",
          "browser_use_session", "browser_wait_for", "browser_drag", "browser_checkbox",
          "browser_upload_file", "browser_control_media", "browser_handle_dialog",
          "start_project_process", "read_project_process_output", "stop_project_process",
          "git_diff", "git_log", "git_show", "git_stage", "git_unstage", "git_commit"}

-----------------------------------------------------------------------------
(* What validateToolCall demands of the arguments of each tool *)

validateProjectTool(tool) ==
  CASE tool = "list_directory" -> takes(validatePath, {"path"})
                                  \union takes(validatePositiveInt, {"depth", "limit"})
    [] tool = "search_files" -> demands(Text, {"query"})
                                \union takes(validatePositiveInt, {"limit"})
    [] tool = "search_code" -> demands(Text, {"query"})
                               \union takes(validatePositiveInt, {"limit"})
                               \union takes({"boolean"}, {"caseSensitive"})
    [] tool = "read_file" -> demands(PathText, {"path"})
    [] tool = "read_file_range" -> demands(PathText, {"path"})
                                   \union takes(validatePositiveInt, {"startLine", "endLine"})

validateCommandTool(tool) ==
  CASE tool = "run_command" ->
         demands(Text, {"executable"}) \union demands({"strings", "empty"}, {"args"})
         \union demands(String \ {"absolute"}, {"cwd_relative"})
         \union takes(String, {"purpose"}) \union takes({"whole"}, {"timeout_ms"})
    [] tool = "list_project_commands" ->
         takes(String, {"conversation_id", "state"}) \union takes({"whole"}, {"limit"})
    [] tool = "read_command_output" ->
         demands(Text, {"command_id"}) \union takes({"whole"}, {"offset_bytes", "limit_bytes"})

\* Browser Runtime V1.
validateBrowserTool(tool) ==
  CASE tool = "browser_list_sessions" -> takes(Text, {"profile_id"})
    [] tool = "browser_new_tab" -> demands(Text, {"session_id"}) \union takes(String, {"url"})
    [] tool \in TabTools -> demands(Text, {"tab_id"})
    [] tool = "browser_open_url" -> demands(Text, {"tab_id", "url"})
    [] tool = "browser_find_text" -> demands(Text, {"tab_id", "query"})
    [] tool = "browser_click" -> demands(Text, {"tab_id", "ref"})
    [] tool = "browser_type" -> demands(Text, {"tab_id"}) \union demands(String, {"text"})
    [] tool \in {"browser_fill", "browser_select"} ->
         demands(Text, {"tab_id", "ref"}) \union demands(String, {"value"})
    [] tool = "browser_press_key" -> demands(Text, {"tab_id", "key"})
    [] tool = "browser_scroll" -> demands(Text, {"tab_id"})
                                  \union takes(Number, {"delta_x", "delta_y"})

\* Browser Runtime V1.1.
validateSessionTool(tool) ==
  CASE tool = "browser_create_session" -> takes(Text, {"profile_id"}) \union takes(String, {"name"})
    [] tool = "browser_use_session" -> takes(Text, {"session_id", "tab_id"})
                                       \union takes(String, {"purpose"})
    [] tool = "browser_wait_for" -> demands(Text, {"tab_id"})
                                    \union demands({"member"}, {"condition"})
                                    \union takes(String, {"value"})
                                    \union takes(Number, {"timeout_ms"})

\* Browser Runtime V3.
validateElementTool(tool) ==
  CASE tool \in RefTools -> demands(Text, {"tab_id", "ref"})
    [] tool = "browser_drag" -> demands(Text, {"tab_id", "source_ref", "target_ref"})
    [] tool = "browser_checkbox" -> demands(Text, {"tab_id", "ref"})
                                    \union demands({"boolean"}, {"checked"})
    [] tool = "browser_upload_file" -> demands(Text, {"tab_id", "ref", "file_path"})
    [] tool = "browser_control_media" -> demands(Text, {"tab_id"})
                                         \union demands({"member"}, {"action"})
                                         \union takes(String, {"ref"})
                                         \union takes(Number, {"value"})
    [] tool = "browser_handle_dialog" -> demands(Text, {"tab_id", "dialog_id"})
                                         \union demands({"member"}, {"action"})
                                         \union takes(String, {"value"})

validateProcessTool(tool) ==
  CASE tool = "start_project_process" -> demands(Text, {"executable"})
                                         \union demands(Array, {"args"})
                                         \union takes(String, {"cwd_relative", "purpose"})
    [] tool \in {"read_project_process_output", "stop_project_process"} ->
         demands(Text, {"process_id"})

validateGitTool(tool) ==
  CASE tool = "git_diff" -> takes({"boolean"}, {"staged"})
                            \union takes({"strings", "empty"}, {"paths"})
    [] tool = "git_log" -> takes({"whole"}, {"limit"}) \union takes(Text, {"path"})
    [] tool = "git_show" -> demands(Text, {"revision"})
    [] tool \in {"git_stage", "git_unstage"} -> demands({"strings"}, {"paths"})
    [] tool = "git_commit" -> demands(Text, {"message"})

fieldsOf(tool) ==
  CASE tool \in ProjectToolNames -> validateProjectTool(tool)
    [] tool \in CommandToolNames -> validateCommandTool(tool)
    [] tool \in BareTools -> {}
    [] tool \in {"browser_create_session", "browser_use_session", "browser_wait_for"} ->
         validateSessionTool(tool)
    [] tool \in RefTools \union {"browser_drag", "browser_checkbox", "browser_upload_file",
                                 "browser_control_media", "browser_handle_dialog"} ->
         validateElementTool(tool)
    [] tool \in {"start_project_process", "read_project_process_output",
                 "stop_project_process"} -> validateProcessTool(tool)
    [] tool \in {"git_diff", "git_log", "git_show", "git_stage", "git_unstage",
                 "git_commit"} -> validateGitTool(tool)
    [] OTHER -> validateBrowserTool(tool)

\* args: the class of the value of each argument given.  Arguments the tool does
\* not know are dropped.
validateToolCall(tool, args) ==
  /\ tool \in KNOWN_TOOL_NAMES
  /\ \A f \in fieldsOf(tool) :
       IF f.name \in DOMAIN args THEN args[f.name] \in f.fits ELSE ~f.needed

-----------------------------------------------------------------------------
(* What the program offers: the parameters of each tool, by their JSON type *)

\* The value a model gives a parameter of a type when it follows the schema.
Sample == [string |-> "text", enum |-> "member", integer |-> "whole", number |-> "whole",
           boolean |-> "boolean", array |-> "strings"]

parameter(type, name) == [type |-> type, name |-> name]
offer(tools, required, optional) ==
  [tool : tools, required : {required}, optional : {optional}]
strings(names) == {parameter("string", n) : n \in names}
integers(names) == {parameter("integer", n) : n \in names}

PROJECT_TOOL_DEFS ==
  offer({"list_directory"}, {}, strings({"path"}) \union integers({"depth", "limit"}))
  \union offer({"search_files"}, strings({"query"}), integers({"limit"}))
  \union offer({"search_code"}, strings({"query"}),
               integers({"limit"}) \union {parameter("boolean", "caseSensitive")})
  \union offer({"read_file"}, strings({"path"}), {})
  \union offer({"read_file_range"}, strings({"path"}) \union integers({"startLine", "endLine"}), {})

COMMAND_TOOL_DEFS ==
  offer({"run_command"}, strings({"executable", "cwd_relative"}) \union {parameter("array", "args")},
        strings({"purpose"}) \union integers({"timeout_ms"}))
  \union offer({"list_project_commands"}, {},
               strings({"conversation_id", "state"}) \union integers({"limit"}))
  \union offer({"read_command_output"}, strings({"command_id"}),
               integers({"offset_bytes", "limit_bytes"}))

BROWSER_TOOL_DEFS ==
  offer({"browser_list_sessions"}, {}, strings({"profile_id"}))
  \union offer({"browser_new_tab"}, strings({"session_id"}), strings({"url"}))
  \union offer({"browser_close_tab", "browser_switch_tab", "browser_back", "browser_forward",
                "browser_reload", "browser_stop", "browser_read_page", "browser_screenshot",
                "browser_get_console", "browser_get_network_summary"}, strings({"tab_id"}), {})
  \union offer({"browser_open_url"}, strings({"tab_id", "url"}), {})
  \union offer({"browser_find_text"}, strings({"tab_id", "query"}), {})
  \union offer({"browser_click"}, strings({"tab_id", "ref"}), {})
  \union offer({"browser_type"}, strings({"tab_id", "text"}), {})
  \union offer({"browser_fill", "browser_select"}, strings({"tab_id", "ref", "value"}), {})
  \union offer({"browser_press_key"}, strings({"tab_id", "key"}), {})
  \union offer({"browser_scroll"}, strings({"tab_id"}),
               {parameter("number", n) : n \in {"delta_x", "delta_y"}})

SESSION_TOOL_DEFS ==
  offer({"browser_list_profiles"}, {}, {})
  \union offer({"browser_create_session"}, {}, strings({"profile_id", "name"}))
  \union offer({"browser_use_session"}, {}, strings({"session_id", "tab_id", "purpose"}))
  \union offer({"browser_wait_for"}, strings({"tab_id"}) \union {parameter("enum", "condition")},
               strings({"value"}) \union {parameter("number", "timeout_ms")})

ELEMENT_TOOL_DEFS ==
  offer({"browser_hover", "browser_double_click", "browser_focus", "browser_clear",
         "browser_scroll_into_view"}, strings({"tab_id", "ref"}), {})
  \union offer({"browser_drag"}, strings({"tab_id", "source_ref", "target_ref"}), {})
  \union offer({"browser_checkbox"},
               strings({"tab_id", "ref"}) \union {parameter("boolean", "checked")}, {})
  \union offer({"browser_upload_file"}, strings({"tab_id", "ref", "file_path"}), {})
  \union offer({"browser_get_media"}, strings({"tab_id"}), {})
  \union offer({"browser_control_media"}, strings({"tab_id"}) \union {parameter("enum", "action")},
               strings({"ref"}) \union {parameter("number", "value")})
  \union offer({"browser_handle_dialog"},
               strings({"tab_id", "dialog_id"}) \union {parameter("enum", "action")},
               strings({"value"}))

WINDOW_TOOL_DEFS ==
  offer({"is_browser_open", "get_browser_status", "browser_open", "browser_close"}, {}, {})

PROCESS_TOOL_DEFS ==
  offer({"start_project_process"}, strings({"executable"}) \union {parameter("array", "args")},
        strings({"cwd_relative", "purpose"}))
  \union offer({"list_project_processes"}, {}, {})
  \union offer({"read_project_process_output", "stop_project_process"}, strings({"process_id"}), {})

GIT_TOOL_DEFS ==
  offer({"git_status", "git_branch_info"}, {}, {})
  \union offer({"git_diff"}, {}, {parameter("boolean", "staged"), parameter("array", "paths")})
  \union offer({"git_log"}, {}, {parameter("number", "limit")} \union strings({"path"}))
  \union offer({"git_show"}, strings({"revision"}), {})
  \union offer({"git_stage", "git_unstage"}, {parameter("array", "paths")}, {})
  \union offer({"git_commit"}, strings({"message"}), {})

TOOL_DEFS == PROJECT_TOOL_DEFS \union COMMAND_TOOL_DEFS \union BROWSER_TOOL_DEFS
             \union SESSION_TOOL_DEFS \union ELEMENT_TOOL_DEFS \union WINDOW_TOOL_DEFS
             \union PROCESS_TOOL_DEFS \union GIT_TOOL_DEFS

\* The arguments of a call that follows the schema, with the optional ones given.
sampleArgs(def, given) ==
  LET all == def.required \union given
  IN  [n \in {p.name : p \in all} |-> Sample[(CHOOSE p \in all : p.name = n).type]]

=============================================================================
